---------------------------- MODULE Spec2Model ----------------------------
(***************************************************************************)
(* A model of the expression-evaluation core of the graphing calculator    *)
(* (src/calculator_utils.js): the Normalizer (preprocessExpression), the   *)
(* Context Builder (buildVariableContext), the Evaluator                   *)
(* (evaluateExpressionSimple), the Composition Resolver                    *)
(* (evaluateExpression) and the Differentiator (numericalDerivative).      *)
(*                                                                         *)
(* Expression text is a sequence of one-character strings.  A JavaScript   *)
(* value is a record [k, m, e]: k is its kind, and for a finite number the *)
(* value is m * 10^e (a decimal floating-point number of Precision         *)
(* significant digits standing for the engine's binary double).            *)
(***************************************************************************)
EXTENDS Integers, Sequences, FiniteSets, TLC

VARIABLES
    pc,        \* "idle": no call in progress; "done": a call has returned
    op,        \* the operation that was called last
    args,      \* the arguments of that call
    result,    \* the value it returned (evaluators, differentiator)
    text,      \* the text it produced (normalizer) or handed to the engine
    context,   \* the name -> value mapping it built (context builder)
    trace,     \* what the call did on the way (recursion depth, sub-results)
    globals,   \* the properties that evaluated texts have created on the
               \* engine's global object: name -> value
    functions, \* the component's functions state, as last rendered
    selectedFunction,  \* the component's selectedFunction state
    error,     \* the component's error state
    pending,   \* the state updates an event handler has queued for the
               \* next render, in the order of the calls
    event      \* the event handled last

core == <<pc, op, args, result, text, context, trace, globals>>

panel == <<functions, selectedFunction, error, pending, event>>

vars == <<pc, op, args, result, text, context, trace, globals,
          functions, selectedFunction, error, pending, event>>

---------------------------------------------------------------------------
(* Characters and text.                                                    *)

LowerSeq ==
    <<"a","b","c","d","e","f","g","h","i","j","k","l","m",
      "n","o","p","q","r","s","t","u","v","w","x","y","z">>

UpperSeq ==
    <<"A","B","C","D","E","F","G","H","I","J","K","L","M",
      "N","O","P","Q","R","S","T","U","V","W","X","Y","Z">>

DigitSeq == <<"0","1","2","3","4","5","6","7","8","9">>

Range(s) == {s[i] : i \in DOMAIN s}

\* F of v: a value computed once and used under the name of F's parameter
Let(v, F(_)) == F(v)

LowerSet == Range(LowerSeq)

UpperSet == Range(UpperSeq)

DigitSet == Range(DigitSeq)

\* \d
IsDigit(c) == c \in DigitSet

\* [a-z] under the i flag
IsLetter(c) == c \in LowerSet \/ c \in UpperSet

\* the lower-case form of a character (case-insensitive matching)
Lower(c) ==
    IF c \in UpperSet
    THEN LowerSeq[CHOOSE i \in DOMAIN UpperSeq : UpperSeq[i] = c]
    ELSE c

\* the value of a decimal digit
DigitValue(c) == (CHOOSE i \in DOMAIN DigitSeq : DigitSeq[i] = c) - 1

\* the text from position i to the end
Drop(t, i) == SubSeq(t, i, Len(t))

\* whether text p occurs in t at position i
StartsWithAt(t, i, p) ==
    /\ i + Len(p) - 1 <= Len(t)
    /\ \A j \in 1..Len(p) : t[i + j - 1] = p[j]

\* all texts over an alphabet, of length at most n
RECURSIVE TextsUpTo(_, _)
TextsUpTo(alphabet, n) ==
    IF n = 0 THEN {<<>>}
    ELSE LET shorter == TextsUpTo(alphabet, n - 1)
         IN  shorter \cup {Append(t, c) : t \in shorter, c \in alphabet}

---------------------------------------------------------------------------
(* The Normalizer: preprocessExpression, seven global regex replacements   *)
(* applied in order.  Each is a left-to-right scan: where the pattern      *)
(* matches, the replacement is emitted and the scan resumes after the      *)
(* match; elsewhere one character is copied.                               *)

\* .replace(/\^/, '**'): without the g flag, the first "^" alone
ReplaceCaretOnce(t, i) ==
    IF \E j \in i..Len(t) : t[j] = "^"
    THEN Let(CHOOSE j \in i..Len(t) : t[j] = "^" /\ \A k \in i..(j - 1) : t[k] # "^",
             LAMBDA j : SubSeq(t, i, j - 1) \o <<"*", "*">> \o SubSeq(t, j + 1, Len(t)))
    ELSE SubSeq(t, i, Len(t))

\* .replace(/\^/g, '**')
RECURSIVE ReplaceCaret(_, _)
ReplaceCaret(t, i) ==
    IF i > Len(t) THEN <<>>
    ELSE IF t[i] = "^" THEN <<"*", "*">> \o ReplaceCaret(t, i + 1)
    ELSE <<t[i]>> \o ReplaceCaret(t, i + 1)

\* .replace(/(\d)([a-z])/g, '$1*$2'): without the i flag
RECURSIVE ReplaceDigitLowerLetter(_, _)
ReplaceDigitLowerLetter(t, i) ==
    IF i > Len(t) THEN <<>>
    ELSE IF i < Len(t) /\ IsDigit(t[i]) /\ t[i + 1] \in LowerSet
    THEN <<t[i], "*", t[i + 1]>> \o ReplaceDigitLowerLetter(t, i + 2)
    ELSE <<t[i]>> \o ReplaceDigitLowerLetter(t, i + 1)

\* .replace(/(\d)([a-z])/gi, '$1*$2')
RECURSIVE ReplaceDigitLetter(_, _)
ReplaceDigitLetter(t, i) ==
    IF i > Len(t) THEN <<>>
    ELSE IF i < Len(t) /\ IsDigit(t[i]) /\ IsLetter(t[i + 1])
    THEN <<t[i], "*", t[i + 1]>> \o ReplaceDigitLetter(t, i + 2)
    ELSE <<t[i]>> \o ReplaceDigitLetter(t, i + 1)

\* .replace(/\)(\d)/g, ')*$1')
RECURSIVE ReplaceParenDigit(_, _)
ReplaceParenDigit(t, i) ==
    IF i > Len(t) THEN <<>>
    ELSE IF i < Len(t) /\ t[i] = ")" /\ IsDigit(t[i + 1])
    THEN <<")", "*", t[i + 1]>> \o ReplaceParenDigit(t, i + 2)
    ELSE <<t[i]>> \o ReplaceParenDigit(t, i + 1)

\* .replace(/(\d)\(/g, '$1*(')
RECURSIVE ReplaceDigitParen(_, _)
ReplaceDigitParen(t, i) ==
    IF i > Len(t) THEN <<>>
    ELSE IF i < Len(t) /\ IsDigit(t[i]) /\ t[i + 1] = "("
    THEN <<t[i], "*", "(">> \o ReplaceDigitParen(t, i + 2)
    ELSE <<t[i]>> \o ReplaceDigitParen(t, i + 1)

\* .replace(/\)\(/g, ')*(')
RECURSIVE ReplaceParenParen(_, _)
ReplaceParenParen(t, i) ==
    IF i > Len(t) THEN <<>>
    ELSE IF i < Len(t) /\ t[i] = ")" /\ t[i + 1] = "("
    THEN <<")", "*", "(">> \o ReplaceParenParen(t, i + 2)
    ELSE <<t[i]>> \o ReplaceParenParen(t, i + 1)

\* .replace(/pi/gi, 'PI')
RECURSIVE ReplacePi(_, _)
ReplacePi(t, i) ==
    IF i > Len(t) THEN <<>>
    ELSE IF i < Len(t) /\ Lower(t[i]) = "p" /\ Lower(t[i + 1]) = "i"
    THEN <<"P", "I">> \o ReplacePi(t, i + 2)
    ELSE <<t[i]>> \o ReplacePi(t, i + 1)

\* the negative lookahead (?![a-df-z]) under the i flag, at position i
NotBeforeLetterButE(t, i) ==
    ~ (i <= Len(t) /\ IsLetter(t[i]) /\ Lower(t[i]) # "e")

\* .replace(/e(?![a-df-z])/gi, 'E')
RECURSIVE ReplaceE(_, _)
ReplaceE(t, i) ==
    IF i > Len(t) THEN <<>>
    ELSE IF Lower(t[i]) = "e" /\ NotBeforeLetterButE(t, i + 1)
    THEN <<"E">> \o ReplaceE(t, i + 1)
    ELSE <<t[i]>> \o ReplaceE(t, i + 1)

preprocessExpression(expr) ==
    LET r1 == ReplaceCaret(expr, 1)
        r2 == ReplaceDigitLetter(r1, 1)
        r3 == ReplaceParenDigit(r2, 1)
        r4 == ReplaceDigitParen(r3, 1)
        r5 == ReplaceParenParen(r4, 1)
        r6 == ReplacePi(r5, 1)
    IN  ReplaceE(r6, 1)

---------------------------------------------------------------------------
(* JavaScript values.  Every value is a record [k, m, e]:                  *)
(*   k = "num": the finite number m * 10^e, kept normal (no trailing zero  *)
(*              in m, fewer than Precision+1 digits, zero as m = 0, e = 0);*)
(*   k = "nan": NaN;  k = "inf": Infinity (m = 1) or -Infinity (m = -1);   *)
(*   k = "fn":  the library function number m of safeMath;                 *)
(*   k = "str": a string;  k = "undef": undefined;  k = "null": null.      *)
(* The sign of zero is not kept: 0 and -0 are the same value, as they are  *)
(* under === and under String().                                           *)

\* significant decimal digits of a number (for the double's 53 bits)
Precision == 4

\* largest decimal exponent of a finite number: 10^MaxExponent overflows to
\* Infinity (for the double's 1.8e308)
MaxExponent == 24

\* smallest decimal exponent: below 10^-MinExponent a result underflows to 0
MinExponent == 12

Num(m, e) == [k |-> "num", m |-> m, e |-> e]

Zero == Num(0, 0)

One == Num(1, 0)

NaN == [k |-> "nan", m |-> 0, e |-> 0]

Inf(sign) == [k |-> "inf", m |-> sign, e |-> 0]

Null == [k |-> "null", m |-> 0, e |-> 0]

Undefined == [k |-> "undef", m |-> 0, e |-> 0]

StringValue == [k |-> "str", m |-> 0, e |-> 0]

Fn(i) == [k |-> "fn", m |-> i, e |-> 0]

Abs(n) == IF n < 0 THEN -n ELSE n

Sign(n) == IF n < 0 THEN -1 ELSE IF n > 0 THEN 1 ELSE 0

Min(a, b) == IF a < b THEN a ELSE b

Max(a, b) == IF a < b THEN b ELSE a

\* the number of decimal digits of n >= 0 (0 has none)
NumDigits(n) == Cardinality({d \in 0..9 : n >= 10 ^ d})

\* m * 10^e with the trailing zeros of m moved into e
StripZeros(m, e) ==
    Let(IF m = 0 THEN 0 ELSE Cardinality({d \in 1..9 : m % (10 ^ d) = 0}),
        LAMBDA z : Num(m \div (10 ^ z), e + z))

\* the number nearest to m * 10^e: rounded to Precision digits, Infinity
\* beyond the largest exponent, 0 below the smallest
Norm(m, e) ==
    IF m = 0 THEN Zero
    ELSE Let(Max(NumDigits(Abs(m)) - Precision, 0), LAMBDA drop :
         Let(StripZeros((Abs(m) + (10 ^ drop) \div 2) \div (10 ^ drop), e + drop),
             LAMBDA n :
         IF n.e + NumDigits(n.m) > MaxExponent THEN Inf(Sign(m))
         ELSE IF n.e + NumDigits(n.m) < -MinExponent THEN Zero
         ELSE Num(Sign(m) * n.m, n.e)))

IsNumber(v) == v.k \in {"num", "nan", "inf"}

\* Number.isFinite
IsFinite(v) == v.k = "num"

\* ToNumber: a function, a string that is no numeral and undefined give NaN
ToNumber(v) == IF IsNumber(v) THEN v ELSE IF v.k = "null" THEN Zero ELSE NaN

\* the sign of a number that is not NaN
SignOf(v) == IF v.k = "inf" THEN v.m ELSE Sign(v.m)

Neg(v) ==
    IF v.k = "num" THEN Num(-v.m, v.e)
    ELSE IF v.k = "inf" THEN Inf(-v.m)
    ELSE NaN

\* the sum of two finite numbers, a.e >= b.e: b is brought to a's exponent
\* less five guard digits, and what it has below that is lost
AddAligned(a, b) ==
    Let(Min(a.e - b.e, 5), LAMBDA up :
        Norm(a.m * (10 ^ up)
               + (IF a.e - b.e - up > Precision THEN 0
                  ELSE Sign(b.m) * (Abs(b.m) \div (10 ^ (a.e - b.e - up)))),
             a.e - up))

AddFinite(a, b) ==
    IF a.m = 0 THEN b
    ELSE IF b.m = 0 THEN a
    ELSE AddAligned(IF a.e >= b.e THEN a ELSE b, IF a.e >= b.e THEN b ELSE a)

\* a + b on numbers
Add(a, b) ==
    IF a.k = "nan" \/ b.k = "nan" THEN NaN
    ELSE IF a.k = "inf" /\ b.k = "inf" THEN (IF a.m = b.m THEN a ELSE NaN)
    ELSE IF a.k = "inf" THEN a
    ELSE IF b.k = "inf" THEN b
    ELSE AddFinite(a, b)

Sub(a, b) == Add(a, Neg(b))

\* a * b on numbers
Mul(a, b) ==
    IF a.k = "nan" \/ b.k = "nan" THEN NaN
    ELSE IF a.k = "inf" \/ b.k = "inf"
    THEN (IF SignOf(a) * SignOf(b) = 0 THEN NaN ELSE Inf(SignOf(a) * SignOf(b)))
    ELSE Norm(a.m * b.m, a.e + b.e)

\* the quotient of two finite non-zero numbers
DivFinite(a, b) ==
    Let(9 - NumDigits(Abs(a.m)), LAMBDA scale :
        Norm(Sign(a.m) * Sign(b.m) * ((Abs(a.m) * (10 ^ scale)) \div Abs(b.m)),
             a.e - scale - b.e))

\* a / b on numbers
Div(a, b) ==
    IF a.k = "nan" \/ b.k = "nan" THEN NaN
    ELSE IF a.k = "inf" THEN
        (IF b.k = "inf" THEN NaN
         ELSE Inf(a.m * (IF b.m < 0 THEN -1 ELSE 1)))
    ELSE IF b.k = "inf" THEN Zero
    ELSE IF b.m = 0 THEN (IF a.m = 0 THEN NaN ELSE Inf(Sign(a.m)))
    ELSE IF a.m = 0 THEN Zero
    ELSE DivFinite(a, b)

\* a < b on numbers that are not NaN
Less(a, b) == SignOf(Sub(a, b)) < 0

\* whether a finite number is an integer
IsInteger(v) == v.k = "num" /\ v.e >= 0

\* whether a finite integer is odd
IsOdd(v) == v.k = "num" /\ v.e = 0 /\ v.m % 2 # 0

---------------------------------------------------------------------------
(* Numbers and text: String(number), as String.prototype.replace applies  *)
(* it to the value its callback returns, and the value of a numeric        *)
(* literal.                                                                *)

\* the decimal digits of n > 0
RECURSIVE DigitsText(_)
DigitsText(n) ==
    IF n = 0 THEN <<>> ELSE Append(DigitsText(n \div 10), DigitSeq[(n % 10) + 1])

Zeros(n) == [i \in 1..n |-> "0"]

\* String(v) for a finite v # 0: with digits the k digits of |v| and
\* |v| = 0.digits * 10^n, positional notation for -6 < n <= 21 and
\* exponent notation otherwise (Number::toString)
FiniteToString(v) ==
    LET digits == DigitsText(Abs(v.m))
        k      == Len(digits)
        n      == v.e + k
        x      == n - 1
        expo   == <<"e", IF x < 0 THEN "-" ELSE "+">> \o
                  (IF x = 0 THEN <<"0">> ELSE DigitsText(Abs(x)))
        body   == IF k <= n /\ n <= 21 THEN digits \o Zeros(n - k)
                  ELSE IF 0 < n /\ n <= 21
                  THEN SubSeq(digits, 1, n) \o <<".">> \o SubSeq(digits, n + 1, k)
                  ELSE IF -6 < n /\ n <= 0
                  THEN <<"0", ".">> \o Zeros(-n) \o digits
                  ELSE IF k = 1 THEN digits \o expo
                  ELSE <<digits[1], ".">> \o SubSeq(digits, 2, k) \o expo
    IN  (IF v.m < 0 THEN <<"-">> ELSE <<>>) \o body

NumberToString(v) ==
    IF v.k = "nan" THEN <<"N", "a", "N">>
    ELSE IF v.k = "inf"
    THEN (IF v.m < 0 THEN <<"-">> ELSE <<>>) \o <<"I","n","f","i","n","i","t","y">>
    ELSE IF v.m = 0 THEN <<"0">>
    ELSE FiniteToString(v)

\* the end of the run of decimal digits of t that starts at i (i - 1 if none)
RECURSIVE DigitsEnd(_, _)
DigitsEnd(t, i) ==
    IF i <= Len(t) /\ IsDigit(t[i]) THEN DigitsEnd(t, i + 1) ELSE i - 1

\* the digits t[i..j] read in a base, as [m, e]: the value is m * base^e; at
\* most eight digits are kept in m, the rest only counted in e
RECURSIVE ReadDigits(_, _, _, _)
ReadDigits(t, i, j, base) ==
    IF j < i THEN [m |-> 0, e |-> 0]
    ELSE LET r == ReadDigits(t, i, j - 1, base)
         IN  IF r.m >= 10 ^ 8 THEN [m |-> r.m, e |-> r.e + 1]
             ELSE [m |-> r.m * base + DigitValue(t[j]), e |-> r.e]

\* an exponent's digits t[i..j] as a number, capped at 1000
ExponentValue(t, i, j) ==
    LET r == ReadDigits(t, i, j, 10)
    IN  IF r.e > 0 \/ r.m > 1000 THEN 1000 ELSE r.m

\* m * 8^e as a number (legacy octal literals)
RECURSIVE TimesEightTo(_, _)
TimesEightTo(v, e) ==
    IF e = 0 \/ v.k # "num" THEN v ELSE TimesEightTo(Norm(v.m * 8, v.e), e - 1)

---------------------------------------------------------------------------
(* The engine's scanner: the body text handed to new Function, as tokens.  *)
(* A token is [t, s, v]: t = "num" (v its value), "id" (s its name),       *)
(* "op" (s the punctuator), "bad" (no token: a SyntaxError) or "other" (a  *)
(* construct of the language outside the calculator's expression grammar,  *)
(* which this model does not evaluate).                                    *)

Token(type, s, v) == [t |-> type, s |-> s, v |-> v]

IsIdentifierStart(c) == IsLetter(c) \/ c \in {"_", "$"}

IsIdentifierPart(c) == IsIdentifierStart(c) \/ IsDigit(c)

\* the end of the identifier that starts at i
RECURSIVE IdentifierEnd(_, _)
IdentifierEnd(t, i) ==
    IF i < Len(t) /\ IsIdentifierPart(t[i + 1]) THEN IdentifierEnd(t, i + 1) ELSE i

\* the position of the first "*/" at or after i, 0 if there is none
RECURSIVE CommentEnd(_, _)
CommentEnd(t, i) ==
    IF i >= Len(t) THEN 0
    ELSE IF t[i] = "*" /\ t[i + 1] = "/" THEN i
    ELSE CommentEnd(t, i + 1)

\* whether an exponent part (e or E, an optional sign, digits) starts at p
HasExponentAt(t, p) ==
    /\ p < Len(t)
    /\ Lower(t[p]) = "e"
    /\ \/ IsDigit(t[p + 1])
       \/ p + 1 < Len(t) /\ t[p + 1] \in {"+", "-"} /\ IsDigit(t[p + 2])

\* the value of the legacy octal literal t[i..j]
OctalValue(t, i, j) ==
    Let(ReadDigits(t, i, j, 8), LAMBDA o : TimesEightTo(Norm(o.m, 0), o.e))

\* the value of the decimal digits with the decimal exponent shift
DecimalValue(digits, shift) ==
    Let(ReadDigits(digits, 1, Len(digits), 10), LAMBDA r : Norm(r.m, r.e + shift))

\* the numeric literal that starts at i: [tok, next]
ScanNumber(t, i) ==
    Let(IF t[i] = "." THEN i - 1 ELSE DigitsEnd(t, i), LAMBDA intEnd :
    Let(intEnd > i /\ t[i] = "0", LAMBDA legacy :
    Let(legacy /\ \A j \in i..intEnd : DigitValue(t[j]) < 8, LAMBDA octal :
    Let(~octal /\ intEnd < Len(t) /\ t[intEnd + 1] = ".", LAMBDA hasDot :
    Let(IF hasDot THEN Max(DigitsEnd(t, intEnd + 2), intEnd + 1) ELSE intEnd,
        LAMBDA mantEnd :
    Let(~legacy /\ HasExponentAt(t, mantEnd + 1), LAMBDA hasExp :
    Let(IF hasExp /\ t[mantEnd + 2] \in {"+", "-"} THEN mantEnd + 3 ELSE mantEnd + 2,
        LAMBDA expFrom :
    Let(IF hasExp THEN DigitsEnd(t, expFrom) ELSE mantEnd, LAMBDA expEnd :
    IF expEnd < Len(t) /\ IsIdentifierPart(t[expEnd + 1])
    THEN [tok  |-> Token(IF t[expEnd + 1] = "_" THEN "other" ELSE "bad", <<>>, Zero),
          next |-> expEnd + 1]
    ELSE [tok  |-> Token("num", <<>>,
                     IF octal THEN OctalValue(t, i, intEnd)
                     ELSE DecimalValue(
                            SubSeq(t, i, intEnd) \o SubSeq(t, intEnd + 2, mantEnd),
                            (IF hasDot THEN intEnd + 1 - mantEnd ELSE 0)
                              + (IF ~hasExp THEN 0
                                 ELSE IF t[mantEnd + 2] = "-"
                                 THEN -ExponentValue(t, expFrom, expEnd)
                                 ELSE ExponentValue(t, expFrom, expEnd)))),
          next |-> expEnd + 1]))))))))

Punctuators == {"+", "-", "*", "/", "(", ")", ",", "="}

\* whether a compound assignment (+= -= *= /= **=), == or => starts at i
IsOtherAssignment(t, i) ==
    \/ i < Len(t) /\ t[i] \in {"+", "-", "*", "/", "="} /\ t[i + 1] = "="
    \/ i + 1 < Len(t) /\ t[i] = "*" /\ t[i + 1] = "*" /\ t[i + 2] = "="
    \/ i < Len(t) /\ t[i] = "=" /\ t[i + 1] = ">"

RECURSIVE Scan(_, _)
Scan(t, i) ==
    IF i > Len(t) THEN <<>>
    ELSE IF t[i] = " " THEN Scan(t, i + 1)
    ELSE IF IsDigit(t[i]) \/ (t[i] = "." /\ i < Len(t) /\ IsDigit(t[i + 1]))
    THEN Let(ScanNumber(t, i), LAMBDA n : <<n.tok>> \o Scan(t, n.next))
    ELSE IF IsIdentifierStart(t[i])
    THEN LET j == IdentifierEnd(t, i)
         IN  <<Token("id", SubSeq(t, i, j), Zero)>> \o Scan(t, j + 1)
    ELSE IF t[i] = "/" /\ i < Len(t) /\ t[i + 1] = "/"
    THEN <<>>
    ELSE IF t[i] = "/" /\ i < Len(t) /\ t[i + 1] = "*"
    THEN LET j == CommentEnd(t, i + 2)
         IN  IF j = 0 THEN <<Token("bad", <<>>, Zero)>> ELSE Scan(t, j + 2)
    ELSE IF IsOtherAssignment(t, i)
    THEN <<Token("other", <<t[i]>>, Zero)>>
    ELSE IF t[i] \in {"*", "+", "-"} /\ i < Len(t) /\ t[i + 1] = t[i]
    THEN <<Token("op", <<t[i], t[i]>>, Zero)>> \o Scan(t, i + 2)
    ELSE IF t[i] \in Punctuators
    THEN <<Token("op", <<t[i]>>, Zero)>> \o Scan(t, i + 1)
    ELSE <<Token("other", <<t[i]>>, Zero)>>

---------------------------------------------------------------------------
(* The Math functions of the library, on Precision-digit numbers.  The     *)
(* results that are exact for a double are exact here (abs, floor, ceil,   *)
(* round, min, max, integer powers, roots of squares, f(0), log of a power *)
(* of ten) and so are the results NaN and Infinity; the others are the     *)
(* engine's approximations, here of Precision digits.                      *)

Pi == Num(3142, -3)

HalfPi == Num(1571, -3)

TwoPi == Num(6283, -3)

Euler == Num(2718, -3)

Ln10 == Num(2303, -3)

Half == Num(5, -1)

Two == Num(2, 0)

MathAbs(x) ==
    IF x.k = "num" THEN Num(Abs(x.m), x.e)
    ELSE IF x.k = "inf" THEN Inf(1)
    ELSE NaN

MathFloor(x) ==
    IF x.k # "num" \/ x.e >= 0 THEN x
    ELSE IF -x.e > Precision THEN (IF x.m < 0 THEN Num(-1, 0) ELSE Zero)
    ELSE Norm(x.m \div (10 ^ (-x.e)), 0)

MathCeil(x) == Neg(MathFloor(Neg(x)))

MathRound(x) == IF x.k # "num" \/ x.e >= 0 THEN x ELSE MathFloor(Add(x, Half))

\* Math.min and Math.max of the numbers args[i..]
RECURSIVE MathMinFrom(_, _)
MathMinFrom(argv, i) ==
    IF i > Len(argv) THEN Inf(1)
    ELSE LET rest == MathMinFrom(argv, i + 1)
         IN  IF argv[i].k = "nan" \/ rest.k = "nan" THEN NaN
             ELSE IF Less(rest, argv[i]) THEN rest ELSE argv[i]

RECURSIVE MathMaxFrom(_, _)
MathMaxFrom(argv, i) ==
    IF i > Len(argv) THEN Inf(-1)
    ELSE LET rest == MathMaxFrom(argv, i + 1)
         IN  IF argv[i].k = "nan" \/ rest.k = "nan" THEN NaN
             ELSE IF Less(argv[i], rest) THEN rest ELSE argv[i]

\* the integer square root of n, from a guess x >= it
RECURSIVE IsqrtFrom(_, _)
IsqrtFrom(n, x) ==
    LET y == (x + n \div x) \div 2
    IN  IF y >= x THEN x ELSE IsqrtFrom(n, y)

\* the square root of a finite number > 0
SqrtFinite(x) ==
    LET s0 == 9 - NumDigits(x.m)
        s  == IF (x.e - s0) % 2 = 0 THEN s0 ELSE s0 - 1
    IN  Norm(IsqrtFrom(x.m * (10 ^ s), 65536), (x.e - s) \div 2)

MathSqrt(x) ==
    IF x.k = "nan" THEN NaN
    ELSE IF SignOf(x) < 0 THEN NaN
    ELSE IF x.k = "inf" \/ x.m = 0 THEN x
    ELSE SqrtFinite(x)

\* a^n for a natural n, by squaring
RECURSIVE PowNat(_, _)
PowNat(a, n) ==
    IF n = 0 THEN One
    ELSE Let(PowNat(a, n \div 2), LAMBDA h :
             Mul(Mul(h, h), IF n % 2 = 0 THEN One ELSE a))

\* a^(10^j)
RECURSIVE PowTenTimes(_, _)
PowTenTimes(a, j) ==
    IF j = 0 \/ a.k # "num" \/ a = Zero \/ a = One THEN a
    ELSE PowTenTimes(PowNat(a, 10), j - 1)

\* a^f for a finite a > 0 and 0 <= f < 1: the product of the iterated square
\* roots of a that the leading binary digits of f select
RECURSIVE PowFraction(_, _, _)
PowFraction(root, f, bits) ==
    IF bits = 0 \/ f = Zero THEN One
    ELSE Let(MathSqrt(root), LAMBDA r :
         Let(Mul(f, Two), LAMBDA d :
         Let(Less(d, One), LAMBDA small :
             Mul(IF small THEN One ELSE r,
                 PowFraction(r, IF small THEN d ELSE Sub(d, One), bits - 1)))))

\* a^n for a finite a # 0 and a finite integer n
IntegerPower(a, n) ==
    Let(PowTenTimes(PowNat(a, Abs(n.m)), n.e), LAMBDA w :
        IF n.m < 0 THEN Div(One, w) ELSE w)

\* a^b for finite a # 0 and finite b # 0: the integer power times the
\* fractional one
PowFinite(a, b) ==
    IF ~IsInteger(b) /\ a.m < 0 THEN NaN
    ELSE Let(IF IsInteger(b) THEN b ELSE MathFloor(b), LAMBDA n :
             Mul(IntegerPower(a, n),
                 IF IsInteger(b) THEN One ELSE PowFraction(a, Sub(b, n), 8)))

\* a ** b and Math.pow(a, b) (Number::exponentiate)
Pow(a, b) ==
    IF b.k = "nan" THEN NaN
    ELSE IF b = Zero THEN One
    ELSE IF a.k = "nan" THEN NaN
    ELSE IF b.k = "inf" THEN
        (IF MathAbs(a) = One THEN NaN
         ELSE IF Less(One, MathAbs(a)) = (b.m > 0) THEN Inf(1) ELSE Zero)
    ELSE IF a.k = "inf" THEN
        (IF b.m < 0 THEN Zero
         ELSE IF a.m < 0 /\ IsOdd(b) THEN Inf(-1) ELSE Inf(1))
    ELSE IF a.m = 0 THEN (IF b.m < 0 THEN Inf(1) ELSE Zero)
    ELSE PowFinite(a, b)

MathExp(x) == Pow(Euler, x)

\* the first bits binary digits of log10(f), 1 <= f < 10, as a numerator
\* over 2^bits
RECURSIVE Log10Bits(_, _)
Log10Bits(f, bits) ==
    IF bits = 0 THEN 0
    ELSE Let(Mul(f, f), LAMBDA q :
         Let(~Less(q, Num(1, 1)), LAMBDA bit :
             (IF bit THEN 2 ^ (bits - 1) ELSE 0)
               + Log10Bits(IF bit THEN Div(q, Num(1, 1)) ELSE q, bits - 1)))

\* log10 of a finite number > 0
Log10Finite(x) ==
    LET k == NumDigits(x.m)
    IN  Add(Norm(x.e + k - 1, 0),
            Div(Norm(Log10Bits(Num(x.m, 1 - k), 12), 0), Num(4096, 0)))

MathLog10(x) ==
    IF x.k = "nan" THEN NaN
    ELSE IF SignOf(x) < 0 THEN NaN
    ELSE IF x.k = "inf" THEN x
    ELSE IF x.m = 0 THEN Inf(-1)
    ELSE Log10Finite(x)

MathLog(x) == Mul(MathLog10(x), Ln10)

\* x less the nearest multiple of 2 pi; 0 where x is too large to tell
ReduceAngle(x) ==
    Let(Sub(x, Mul(TwoPi, MathRound(Div(x, TwoPi)))), LAMBDA r :
        IF Less(Num(4, 0), MathAbs(r)) THEN Zero ELSE r)

\* term - term * r2 / ((k+1)(k+2)) + ... : the terms of the sine (k odd)
\* or cosine (k even) series from the k-th to the last
RECURSIVE Series(_, _, _, _)
Series(term, r2, k, last) ==
    IF k > last THEN Zero
    ELSE Add(term,
             Series(Neg(Div(Mul(term, r2), Norm((k + 1) * (k + 2), 0))),
                    r2, k + 2, last))

\* the sine series on -pi/2 .. pi/2
SinSeries(r) == Series(r, Mul(r, r), 1, 9)

\* the cosine series on -pi/2 .. pi/2
CosSeries(r) == Series(One, Mul(r, r), 0, 8)

\* the angle r of -pi .. pi folded into -pi/2 .. pi/2, where its sine is
\* the same and its cosine the opposite
Fold(r) ==
    IF Less(HalfPi, r) THEN Sub(Pi, r)
    ELSE IF Less(r, Neg(HalfPi)) THEN Sub(Neg(Pi), r)
    ELSE r

MathSin(x) ==
    IF x.k # "num" THEN NaN ELSE SinSeries(Fold(ReduceAngle(x)))

MathCos(x) ==
    IF x.k # "num" THEN NaN
    ELSE Let(ReduceAngle(x), LAMBDA r :
         Let(Fold(r), LAMBDA folded :
             IF folded = r THEN CosSeries(r) ELSE Neg(CosSeries(folded))))

MathTan(x) == Div(MathSin(x), MathCos(x))

\* power / k - power * x2 / (k+2) + ... : the terms of the arctangent
\* series from the k-th to the last
RECURSIVE AtanSeries(_, _, _, _)
AtanSeries(power, x2, k, last) ==
    IF k > last THEN Zero
    ELSE Add(Div(power, Norm(k, 0)),
             AtanSeries(Neg(Mul(power, x2)), x2, k + 2, last))

\* atan of a finite number: the argument halved three times, then the series
RECURSIVE AtanFinite(_, _)
AtanFinite(x, halvings) ==
    IF halvings = 0 THEN AtanSeries(x, Mul(x, x), 1, 7)
    ELSE Mul(Two, AtanFinite(Div(x, Add(One, MathSqrt(Add(One, Mul(x, x))))),
                             halvings - 1))

MathAtan(x) ==
    IF x.k = "nan" THEN NaN
    ELSE IF x.k = "inf" THEN (IF x.m > 0 THEN HalfPi ELSE Neg(HalfPi))
    ELSE AtanFinite(x, 3)

MathAsin(x) ==
    IF x.k # "num" \/ Less(One, MathAbs(x)) THEN NaN
    ELSE IF x = One THEN HalfPi
    ELSE IF x = Num(-1, 0) THEN Neg(HalfPi)
    ELSE MathAtan(Div(x, MathSqrt(Sub(One, Mul(x, x)))))

MathAcos(x) == Sub(HalfPi, MathAsin(x))

\* Math.sinh, Math.cosh and Math.tanh of x, from e^x and e^-x
Hyperbolic(name, x) ==
    Let([sign \in {1, -1} |-> MathExp(IF sign = 1 THEN x ELSE Neg(x))], LAMBDA ex :
        IF name = <<"s", "i", "n", "h">> THEN Div(Sub(ex[1], ex[-1]), Two)
        ELSE IF name = <<"c", "o", "s", "h">> THEN Div(Add(ex[1], ex[-1]), Two)
        ELSE IF x.k = "nan" THEN NaN
        ELSE IF ex[1].k = "inf" THEN One
        ELSE IF ex[-1].k = "inf" THEN Num(-1, 0)
        ELSE Div(Sub(ex[1], ex[-1]), Add(ex[1], ex[-1])))

---------------------------------------------------------------------------
(* The Constant/Function Library: safeMath, in the order of its keys.      *)

safeMathNames ==
    <<<<"s", "i", "n">>,
      <<"c", "o", "s">>,
      <<"t", "a", "n">>,
      <<"s", "q", "r", "t">>,
      <<"a", "b", "s">>,
      <<"e", "x", "p">>,
      <<"l", "n">>,
      <<"l", "o", "g">>,
      <<"P", "I">>,
      <<"E">>,
      <<"p", "o", "w">>,
      <<"a", "s", "i", "n">>,
      <<"a", "c", "o", "s">>,
      <<"a", "t", "a", "n">>,
      <<"s", "i", "n", "h">>,
      <<"c", "o", "s", "h">>,
      <<"t", "a", "n", "h">>,
      <<"f", "l", "o", "o", "r">>,
      <<"c", "e", "i", "l">>,
      <<"r", "o", "u", "n", "d">>,
      <<"m", "i", "n">>,
      <<"m", "a", "x">>>>

\* the value safeMath binds to its i-th name
safeMathValue(i) ==
    IF safeMathNames[i] = <<"P", "I">> THEN Pi
    ELSE IF safeMathNames[i] = <<"E">> THEN Euler
    ELSE Fn(i)

safeMath == [n \in Range(safeMathNames) |->
                safeMathValue(CHOOSE i \in DOMAIN safeMathNames : safeMathNames[i] = n)]

\* the j-th argument of a call as a number (a missing one is undefined)
Argument(argv, j) == IF Len(argv) >= j THEN ToNumber(argv[j]) ELSE NaN

MathFunction(name, a, b, nums) ==
        CASE name = <<"s", "i", "n">> -> MathSin(a)
          [] name = <<"c", "o", "s">> -> MathCos(a)
          [] name = <<"t", "a", "n">> -> MathTan(a)
          [] name = <<"s", "q", "r", "t">> -> MathSqrt(a)
          [] name = <<"a", "b", "s">> -> MathAbs(a)
          [] name = <<"e", "x", "p">> -> MathExp(a)
          [] name = <<"l", "n">> -> MathLog(a)
          [] name = <<"l", "o", "g">> -> MathLog10(a)
          [] name = <<"p", "o", "w">> -> Pow(a, b)
          [] name = <<"a", "s", "i", "n">> -> MathAsin(a)
          [] name = <<"a", "c", "o", "s">> -> MathAcos(a)
          [] name = <<"a", "t", "a", "n">> -> MathAtan(a)
          [] name \in {<<"s", "i", "n", "h">>, <<"c", "o", "s", "h">>,
                       <<"t", "a", "n", "h">>} -> Hyperbolic(name, a)
          [] name = <<"f", "l", "o", "o", "r">> -> MathFloor(a)
          [] name = <<"c", "e", "i", "l">> -> MathCeil(a)
          [] name = <<"r", "o", "u", "n", "d">> -> MathRound(a)
          [] name = <<"m", "i", "n">> -> MathMinFrom(nums, 1)
          [] name = <<"m", "a", "x">> -> MathMaxFrom(nums, 1)

\* the call of library function number i on the argument values argv (a
\* missing argument is undefined)
ApplyMath(i, argv) ==
    MathFunction(safeMathNames[i], Argument(argv, 1), Argument(argv, 2),
                 [j \in DOMAIN argv |-> ToNumber(argv[j])])

---------------------------------------------------------------------------
(* The scope a compiled function body sees beyond its parameters: the      *)
(* global object.  Its value properties are modelled; a reference to       *)
(* another standard global, like a reserved word, is outside the           *)
(* calculator's expression grammar.                                        *)

GlobalScope ==
    (<<"I", "n", "f", "i", "n", "i", "t", "y">> :> Inf(1)) @@
    (<<"N", "a", "N">> :> NaN) @@
    (<<"u", "n", "d", "e", "f", "i", "n", "e", "d">> :> Undefined)

OtherGlobals ==
    {<<"g", "l", "o", "b", "a", "l", "T", "h", "i", "s">>,
     <<"M", "a", "t", "h">>, <<"N", "u", "m", "b", "e", "r">>,
     <<"S", "t", "r", "i", "n", "g">>,
     <<"B", "o", "o", "l", "e", "a", "n">>,
     <<"O", "b", "j", "e", "c", "t">>, <<"A", "r", "r", "a", "y">>,
     <<"F", "u", "n", "c", "t", "i", "o", "n">>,
     <<"S", "y", "m", "b", "o", "l">>, <<"D", "a", "t", "e">>,
     <<"R", "e", "g", "E", "x", "p">>, <<"E", "r", "r", "o", "r">>,
     <<"J", "S", "O", "N">>, <<"p", "a", "r", "s", "e", "I", "n", "t">>,
     <<"p", "a", "r", "s", "e", "F", "l", "o", "a", "t">>,
     <<"i", "s", "N", "a", "N">>,
     <<"i", "s", "F", "i", "n", "i", "t", "e">>, <<"e", "v", "a", "l">>,
     <<"e", "s", "c", "a", "p", "e">>,
     <<"u", "n", "e", "s", "c", "a", "p", "e">>, <<"M", "a", "p">>,
     <<"S", "e", "t">>, <<"P", "r", "o", "m", "i", "s", "e">>,
     <<"R", "e", "f", "l", "e", "c", "t">>, <<"P", "r", "o", "x", "y">>,
     <<"B", "i", "g", "I", "n", "t">>,
     <<"c", "o", "n", "s", "o", "l", "e">>,
     <<"a", "r", "g", "u", "m", "e", "n", "t", "s">>}

ReservedWords ==
    {<<"a", "w", "a", "i", "t">>, <<"b", "r", "e", "a", "k">>,
     <<"c", "a", "s", "e">>, <<"c", "a", "t", "c", "h">>,
     <<"c", "l", "a", "s", "s">>, <<"c", "o", "n", "s", "t">>,
     <<"c", "o", "n", "t", "i", "n", "u", "e">>,
     <<"d", "e", "b", "u", "g", "g", "e", "r">>,
     <<"d", "e", "f", "a", "u", "l", "t">>,
     <<"d", "e", "l", "e", "t", "e">>, <<"d", "o">>,
     <<"e", "l", "s", "e">>, <<"e", "n", "u", "m">>,
     <<"e", "x", "p", "o", "r", "t">>,
     <<"e", "x", "t", "e", "n", "d", "s">>, <<"f", "a", "l", "s", "e">>,
     <<"f", "i", "n", "a", "l", "l", "y">>, <<"f", "o", "r">>,
     <<"f", "u", "n", "c", "t", "i", "o", "n">>, <<"i", "f">>,
     <<"i", "m", "p", "o", "r", "t">>, <<"i", "n">>,
     <<"i", "n", "s", "t", "a", "n", "c", "e", "o", "f">>,
     <<"n", "e", "w">>, <<"n", "u", "l", "l">>,
     <<"r", "e", "t", "u", "r", "n">>, <<"s", "u", "p", "e", "r">>,
     <<"s", "w", "i", "t", "c", "h">>, <<"t", "h", "i", "s">>,
     <<"t", "h", "r", "o", "w">>, <<"t", "r", "u", "e">>,
     <<"t", "r", "y">>, <<"t", "y", "p", "e", "o", "f">>,
     <<"v", "a", "r">>, <<"v", "o", "i", "d">>,
     <<"w", "h", "i", "l", "e">>, <<"w", "i", "t", "h">>,
     <<"l", "e", "t">>, <<"s", "t", "a", "t", "i", "c">>,
     <<"y", "i", "e", "l", "d">>, <<"a", "s", "y", "n", "c">>,
     <<"o", "f">>}

---------------------------------------------------------------------------
(* The engine's parser and evaluator of a function body "return <text>",   *)
(* for the expression grammar of the calculator: numbers, names, calls,    *)
(* parentheses, + - * / **, unary + and -, ++ and --, the assignment       *)
(* name = value, and the comma.                                            *)
(* One descent serves both new Function (run = FALSE: the syntax alone)    *)
(* and the call of the compiled function (run = TRUE: the values, in the   *)
(* environment env, which ++, -- and = update).  env binds the parameters  *)
(* under their names and, the body being sloppy-mode code, the properties  *)
(* that assignments to undeclared names have created on the global object, *)
(* each under its name after a "." (as in globalThis.y).                   *)
(* A result is [err, v, i, env, ref, un]: the error thrown ("" if none),   *)
(* the value, the next token, the environment after, the name if the       *)
(* expression is a plain reference, and whether it is a unary-operator     *)
(* expression (which may not be the base of a power).                      *)

Result(err, v, i, env, ref, un) ==
    [err |-> err, v |-> v, i |-> i, env |-> env, ref |-> ref, un |-> un]

Throw(kind, i, env) == Result(kind, Undefined, i, env, <<>>, FALSE)

TokenAt(toks, i) == IF i <= Len(toks) THEN toks[i] ELSE Token("end", <<>>, Zero)

IsOp(tok, s) == tok.t = "op" /\ tok.s = s

\* a + b: concatenation when an operand is a function or a string
BinaryPlus(a, b) ==
    IF a.k \in {"fn", "str"} \/ b.k \in {"fn", "str"} THEN StringValue
    ELSE Add(ToNumber(a), ToNumber(b))

\* the key in env of the property n of the global object
Property(n) == <<".">> \o n

\* the value of the name n
Resolve(n, i, env) ==
    IF n \in DOMAIN env THEN Result("", env[n], i, env, n, FALSE)
    ELSE IF n \in OtherGlobals THEN Throw("Other", i, env)
    ELSE IF n \in DOMAIN GlobalScope THEN Result("", GlobalScope[n], i, env, n, FALSE)
    ELSE IF Property(n) \in DOMAIN env
    THEN Result("", env[Property(n)], i, env, n, FALSE)
    ELSE Throw("ReferenceError", i, env)

\* env after the value v is stored under the name n: in the parameter n, or
\* else in the property n of the global object, which the store creates if
\* it is missing (the standard value properties are not writable, and the
\* store is ignored)
Store(env, n, v) ==
    IF n \in DOMAIN env THEN [env EXCEPT ![n] = v]
    ELSE IF n \in DOMAIN GlobalScope THEN env
    ELSE (Property(n) :> v) @@ env

\* ++ or -- applied to the reference r: the new value is stored
Update(r, sym, prefix, i, run) ==
    IF r.ref = <<>> THEN Throw("SyntaxError", i, r.env)
    ELSE IF ~run THEN Result("", Zero, i, r.env, <<>>, FALSE)
    ELSE Let(Add(ToNumber(r.v), IF sym = <<"+", "+">> THEN One ELSE Num(-1, 0)),
             LAMBDA new :
             Result("", IF prefix THEN new ELSE ToNumber(r.v), i,
                    Store(r.env, r.ref, new), <<>>, FALSE))

\* left sym right for the operators * and /, + and -
Binary(left, sym, right) ==
    Result("",
           CASE sym = <<"*">> -> Mul(ToNumber(left.v), ToNumber(right.v))
             [] sym = <<"/">> -> Div(ToNumber(left.v), ToNumber(right.v))
             [] sym = <<"+">> -> BinaryPlus(left.v, right.v)
             [] sym = <<"-">> -> Add(ToNumber(left.v), Neg(ToNumber(right.v))),
           right.i, right.env, <<>>, FALSE)

\* whether the token at i is one of the operators syms
IsOpAt(toks, i, syms) == TokenAt(toks, i).t = "op" /\ TokenAt(toks, i).s \in syms

\* the binding strength of the binary operator tok: 1 for + and -, 2 for *
\* and /, 3 for **, and 0 for another token
Precedence(tok) ==
    IF tok.t # "op" THEN 0
    ELSE IF tok.s \in {<<"+">>, <<"-">>} THEN 1
    ELSE IF tok.s \in {<<"*">>, <<"/">>} THEN 2
    ELSE IF tok.s = <<"*", "*">> THEN 3
    ELSE 0

RECURSIVE ParseExpression(_, _, _, _)
RECURSIVE ParseAssignment(_, _, _, _)
RECURSIVE ParseBinary(_, _, _, _)
RECURSIVE ParseUnary(_, _, _, _)
RECURSIVE CallRest(_, _, _)
RECURSIVE ParseArguments(_, _, _, _, _)
RECURSIVE ParsePrimary(_, _, _, _)

ParsePrimary(toks, i, env, run) ==
    Let(TokenAt(toks, i), LAMBDA tok :
        IF tok.t = "num" THEN Result("", tok.v, i + 1, env, <<>>, FALSE)
        ELSE IF tok.t = "id" THEN
            (IF tok.s \in ReservedWords THEN Throw("Other", i, env)
             ELSE IF ~run THEN Result("", Zero, i + 1, env, tok.s, FALSE)
             ELSE Resolve(tok.s, i + 1, env))
        ELSE IF IsOp(tok, <<"(">>) THEN
            Let(ParseExpression(toks, i + 1, env, run), LAMBDA r :
                IF r.err # "" THEN r
                ELSE IF IsOpAt(toks, r.i, {<<")">>})
                THEN Result("", r.v, r.i + 1, r.env, r.ref, FALSE)
                ELSE Throw("SyntaxError", r.i, r.env))
        ELSE IF tok.t = "other" \/ IsOp(tok, <<"/">>) THEN Throw("Other", i, env)
        ELSE Throw("SyntaxError", i, env))

\* the arguments of a call, after its "(": [err, vals, i, env]
ParseArguments(toks, i, env, run, vals) ==
    IF IsOpAt(toks, i, {<<")">>})
    THEN [err |-> "", vals |-> vals, i |-> i + 1, env |-> env]
    ELSE Let(ParseAssignment(toks, i, env, run), LAMBDA r :
             IF r.err # "" THEN [err |-> r.err, vals |-> vals, i |-> r.i, env |-> r.env]
             ELSE IF IsOpAt(toks, r.i, {<<",">>})
             THEN ParseArguments(toks, r.i + 1, r.env, run, Append(vals, r.v))
             ELSE IF IsOpAt(toks, r.i, {<<")">>})
             THEN [err |-> "", vals |-> Append(vals, r.v), i |-> r.i + 1, env |-> r.env]
             ELSE [err |-> "SyntaxError", vals |-> vals, i |-> r.i, env |-> r.env])

\* the calls that follow the callee: callee(...)(...)
CallRest(toks, callee, run) ==
    IF callee.err # "" \/ ~IsOpAt(toks, callee.i, {<<"(">>}) THEN callee
    ELSE Let(ParseArguments(toks, callee.i + 1, callee.env, run, <<>>), LAMBDA a :
             IF a.err # "" THEN Throw(a.err, a.i, a.env)
             ELSE IF run /\ callee.v.k # "fn" THEN Throw("TypeError", a.i, a.env)
             ELSE CallRest(toks,
                           Result("", IF run THEN ApplyMath(callee.v.m, a.vals) ELSE Zero,
                                  a.i, a.env, <<>>, FALSE),
                           run))

\* x++ and x-- after the call expression r
Postfix(toks, r, run) ==
    IF r.err = "" /\ IsOpAt(toks, r.i, {<<"+", "+">>, <<"-", "-">>})
    THEN Update(r, toks[r.i].s, FALSE, r.i + 1, run)
    ELSE r

\* +x and -x, ++x and --x, and the call expression with its x++ or x--
ParseUnary(toks, i, env, run) ==
    IF IsOpAt(toks, i, {<<"+">>, <<"-">>})
    THEN Let(ParseUnary(toks, i + 1, env, run), LAMBDA r :
             IF r.err # "" THEN r
             ELSE Result("",
                         IF toks[i].s = <<"-">> THEN Neg(ToNumber(r.v))
                         ELSE ToNumber(r.v),
                         r.i, r.env, <<>>, TRUE))
    ELSE IF IsOpAt(toks, i, {<<"+", "+">>, <<"-", "-">>})
    THEN Let(ParseUnary(toks, i + 1, env, run), LAMBDA r :
             IF r.err # "" THEN r ELSE Update(r, toks[i].s, TRUE, r.i, run))
    ELSE Postfix(toks, CallRest(toks, ParsePrimary(toks, i, env, run), run), run)

\* left ** right: a unary expression may not be the base
Power(left, right) ==
    Result("", Pow(ToNumber(left.v), ToNumber(right.v)), right.i, right.env, <<>>, FALSE)

\* the binary operators that follow the operand left and bind at least as
\* strongly as min: + - and * / are left-associative and ** is
\* right-associative, and each operand is a unary expression
ParseBinary(toks, run, left, min) ==
    IF left.err # "" THEN left
    ELSE Let(Precedence(TokenAt(toks, left.i)), LAMBDA p :
         IF p = 0 \/ p < min THEN left
         ELSE IF p = 3 /\ left.un THEN Throw("SyntaxError", left.i, left.env)
         ELSE Let(ParseBinary(toks, run,
                              ParseUnary(toks, left.i + 1, left.env, run),
                              IF p = 3 THEN 3 ELSE p + 1),
                  LAMBDA right :
                  IF right.err # "" THEN right
                  ELSE ParseBinary(toks, run,
                                   IF p = 3 THEN Power(left, right)
                                   ELSE Binary(left, toks[left.i].s, right),
                                   min)))

\* name = value, right-associative: the name is not evaluated, the value is
\* stored under it and is the value of the assignment.  Another target is
\* a SyntaxError, or, a name in parentheses, outside the modelled grammar,
\* as is a store to a standard global other than the value properties.
ParseAssignment(toks, i, env, run) ==
    IF TokenAt(toks, i).t = "id" /\ TokenAt(toks, i).s \notin ReservedWords
       /\ IsOpAt(toks, i + 1, {<<"=">>})
    THEN Let(ParseAssignment(toks, i + 2, env, run), LAMBDA right :
             IF right.err # "" THEN right
             ELSE IF toks[i].s \in OtherGlobals THEN Throw("Other", right.i, right.env)
             ELSE IF ~run THEN Result("", Zero, right.i, right.env, <<>>, FALSE)
             ELSE Result("", right.v, right.i, Store(right.env, toks[i].s, right.v),
                         <<>>, FALSE))
    ELSE Let(ParseBinary(toks, run, ParseUnary(toks, i, env, run), 1), LAMBDA left :
             IF left.err # "" \/ ~IsOpAt(toks, left.i, {<<"=">>}) THEN left
             ELSE Throw(IF left.ref = <<>> THEN "SyntaxError" ELSE "Other",
                        left.i, left.env))

\* the assignment expressions separated by commas: the value is the last
\* one's
ParseExpression(toks, i, env, run) ==
    Let(ParseAssignment(toks, i, env, run), LAMBDA first :
        IF first.err # "" \/ ~IsOpAt(toks, first.i, {<<",">>}) THEN first
        ELSE Let(ParseExpression(toks, first.i + 1, first.env, run), LAMBDA last :
                 IF last.err # "" THEN last
                 ELSE Result("", last.v, last.i, last.env, <<>>, FALSE)))

\* the statement "return <tokens>": the expression is optional and nothing
\* may follow it
ReturnStatement(toks, env, run) ==
    IF toks = <<>> THEN Result("", Undefined, 1, env, <<>>, FALSE)
    ELSE Let(ParseExpression(toks, 1, env, run), LAMBDA r :
             IF r.err # "" THEN r
             ELSE IF r.i <= Len(toks)
             THEN Throw(IF toks[r.i].t = "other" THEN "Other" ELSE "SyntaxError", r.i, env)
             ELSE r)

\* whether a context key can be a parameter name of new Function
IsParameterName(n) ==
    /\ n # <<>>
    /\ IsIdentifierStart(n[1])
    /\ \A j \in DOMAIN n : IsIdentifierPart(n[j])
    /\ n \notin ReservedWords

\* the two passes of the engine over the body: the syntax alone (FALSE),
\* and the run in the environment env (TRUE)
Passes(env, toks) ==
    [run \in BOOLEAN |-> ReturnStatement(toks, IF run THEN env ELSE <<>>, run)]

\* the properties scope (name -> value) of the global object, as a part of
\* an environment
Properties(scope) ==
    [k \in {Property(n) : n \in DOMAIN scope} |-> scope[Tail(k)]]

\* the properties of the global object in the environment env
ScopeOf(env) ==
    [n \in {Tail(k) : k \in {q \in DOMAIN env : q # <<>> /\ q[1] = "."}}
        |-> env[Property(n)]]

\* new Function(...keys, `return ${body}`): the error thrown, "" if none
NewFunction(keys, syntax) ==
    IF \E n \in keys : ~IsParameterName(n) THEN "SyntaxError" ELSE syntax.err

---------------------------------------------------------------------------
(* The Context Builder.  A Variable entry is [name, nameType, value]:      *)
(* nameType is typeof entry?.name ("string", or "undefined" for a missing  *)
(* name or a null entry, or "number"), and typeof entry?.value is "number" *)
(* exactly for the values of kind "num", "nan" and "inf".                  *)

\* whether the entry passes the two typeof tests
IsAccepted(variable) == variable.nameType = "string" /\ IsNumber(variable.value)

\* the context after the first n entries: a later accepted entry overwrites
\* an earlier one of the same name
RECURSIVE ContextAfter(_, _)
ContextAfter(variables, n) ==
    IF n = 0 THEN <<>>
    ELSE IF IsAccepted(variables[n])
    THEN (variables[n].name :> variables[n].value) @@ ContextAfter(variables, n - 1)
    ELSE ContextAfter(variables, n - 1)

buildVariableContext(variables) == ContextAfter(variables, Len(variables))

---------------------------------------------------------------------------
(* The Evaluator.                                                          *)

\* { [independentVar]: xValue, ...varContext, ...safeMath }: the spread in
\* the opposite order
AllContextReversed(varContext, independentVar, xValue) ==
    safeMath @@ varContext @@ (independentVar :> xValue)

\* { ...safeMath, ...varContext, [independentVar]: xValue }
AllContext(varContext, independentVar, xValue) ==
    (independentVar :> xValue) @@ varContext @@ safeMath

\* new Function over the context's keys, then its call on the context's
\* values, the global object having the properties scope: [err, v, scope],
\* the error thrown ("" if none), the value returned and the properties of
\* the global object afterwards
RunFunction(allContext, body, scope) ==
    Let(Passes(allContext @@ Properties(scope), Scan(body, 1)), LAMBDA pass :
    Let(NewFunction(DOMAIN allContext, pass[FALSE]), LAMBDA compiled :
        IF compiled # "" THEN [err |-> compiled, v |-> Undefined, scope |-> scope]
        ELSE Let(pass[TRUE], LAMBDA r :
                 [err |-> r.err, v |-> r.v, scope |-> ScopeOf(r.env)])))

\* return result, and catch { return null }: without the Number.isFinite test
ResultOrNull(outcome) == IF outcome.err # "" THEN Null ELSE outcome.v

\* return Number.isFinite(result) ? result : null, and catch { return null }
FiniteOrNull(outcome) ==
    IF outcome.err # "" THEN Null
    ELSE IF IsFinite(outcome.v) THEN outcome.v
    ELSE Null

\* the body of both evaluators after composition: normalize, build the
\* context, compile and call
EvaluateText(processedExpr, xValue, independentVar, variables, scope) ==
    RunFunction(AllContext(buildVariableContext(variables), independentVar, xValue),
                preprocessExpression(processedExpr), scope)

\* the Evaluator's call as [v, body, err, scope]: the value returned, the
\* text handed to the engine, the error the engine threw ("" if none) and
\* the properties of the global object afterwards
EvaluateSimply(expr, xValue, independentVar, variables, scope) ==
    Let(EvaluateText(expr, xValue, independentVar, variables, scope), LAMBDA outcome :
        [v     |-> FiniteOrNull(outcome),
         body  |-> preprocessExpression(expr),
         err   |-> outcome.err,
         scope |-> outcome.scope])

\* the call made in the current state of the engine
evaluateExpressionSimple(expr, xValue, independentVar, variables) ==
    EvaluateSimply(expr, xValue, independentVar, variables, globals).v

---------------------------------------------------------------------------
(* The Composition Resolver.  A FunctionDef is [id, expr, visible,         *)
(* independentVar, dependentVar], an empty dependentVar or independentVar  *)
(* standing for a missing one; config is [independentVar, currentFuncId,   *)
(* functions, variables].  The names are identifiers, so that the pattern  *)
(* built from dependentVar matches it literally.  The evaluation of a text *)
(* is reported as [v, depth, calls, body, err, scope]: the value returned,  *)
(* the deepest nesting of evaluateExpression calls under this one (itself  *)
(* counted), the number of evaluateExpression calls made, the text handed  *)
(* to the engine, the error the engine threw ("" if none) and the          *)
(* properties of the global object afterwards; every evaluation starts     *)
(* from the properties scope that the one before it left.  The field       *)
(* rewritten is the set of the FunctionDefs a match of whose pattern was    *)
(* replaced by the text of a value, under this call or a call nested in it, *)
(* and failed the set of those a match of whose pattern this call left as  *)
(* it was.                                                                 *)

NoFunction == 0

\* func.dependentVar || 'f'
FuncName(func) == IF func.dependentVar = <<>> THEN <<"f">> ELSE func.dependentVar

\* func.independentVar || 'x'
FuncIndepVar(func) == IF func.independentVar = <<>> THEN <<"x">> ELSE func.independentVar

\* the position of the first ")" at or after i, 0 if there is none
RECURSIVE FirstClose(_, _)
FirstClose(t, i) ==
    IF i > Len(t) THEN 0
    ELSE IF t[i] = ")" THEN i
    ELSE FirstClose(t, i + 1)

\* the end of the match of funcName\(([^)]+)\) at position i, 0 if none
MatchEnd(t, i, funcName) ==
    LET open == i + Len(funcName)
        j    == FirstClose(t, open + 1)
    IN  IF StartsWithAt(t, i, funcName) /\ open <= Len(t) /\ t[open] = "("
           /\ j > open + 1
        THEN j ELSE 0

\* the position of the first match of funcName\(([^)]+)\) at or after i, 0
\* if there is none
RECURSIVE NextMatch(_, _, _)
NextMatch(t, i, funcName) ==
    IF i > Len(t) THEN 0
    ELSE IF MatchEnd(t, i, funcName) # 0 THEN i
    ELSE NextMatch(t, i + 1, funcName)

RECURSIVE Evaluate(_, _, _, _)
RECURSIVE ReplaceCalls(_, _, _, _, _, _)
RECURSIVE ResolveFunctions(_, _, _, _, _)

\* the value of func at innerValue by evaluateExpression on func.expr with
\* func as the current function, so that func.expr is composed in its turn:
\* [v, depth, calls, scope].  The engine's call stack is exhausted (a
\* RangeError, caught) where config.fuel, 8 for the outermost call, reaches 0.
ApplyFunctionComposed(func, innerValue, config, scope) ==
    IF "fuel" \in DOMAIN config /\ config.fuel = 0
    THEN [v |-> Null, depth |-> 0, calls |-> 0, scope |-> scope, rewritten |-> {}]
    ELSE Let(Evaluate(func.expr, innerValue,
                      [independentVar |-> FuncIndepVar(func),
                       currentFuncId  |-> func.id,
                       functions      |-> config.functions,
                       variables      |-> config.variables,
                       fuel           |-> IF "fuel" \in DOMAIN config
                                          THEN config.fuel - 1 ELSE 8],
                      scope),
             LAMBDA r : [v |-> r.v, depth |-> r.depth, calls |-> r.calls,
                         scope |-> r.scope, rewritten |-> r.rewritten])

\* the value of func at innerValue: evaluateExpressionSimple on func.expr,
\* which makes no call of evaluateExpression: [v, depth, calls, scope]
ApplyFunction(func, innerValue, config, scope) ==
    Let(EvaluateSimply(func.expr, innerValue, FuncIndepVar(func), config.variables,
                       scope),
        LAMBDA r : [v |-> r.v, depth |-> 0, calls |-> 0, scope |-> r.scope,
                    rewritten |-> {}])

\* processedExpr.replace(funcPattern, callback) from position from on: the
\* text up to the next match is kept, the match is replaced by what the
\* callback returns, and the rest is searched in its turn:
\* [body, depth, calls, scope]
ReplaceCalls(t, from, func, xValue, config, scope) ==
    Let(NextMatch(t, from, FuncName(func)), LAMBDA i :
    IF i = 0
    THEN [body |-> SubSeq(t, from, Len(t)), depth |-> 0, calls |-> 0, scope |-> scope,
          rewritten |-> {}, failed |-> {}]
    ELSE Let(MatchEnd(t, i, FuncName(func)), LAMBDA j :
         Let(Evaluate(SubSeq(t, i + Len(FuncName(func)) + 1, j - 1), xValue, config,
                      scope),
             LAMBDA inner :
              Let(IF inner.v = Null
                  THEN [v |-> Null, depth |-> 0, calls |-> 0, scope |-> inner.scope,
                        rewritten |-> {}]
                  ELSE ApplyFunction(func, inner.v, config, inner.scope),
                  LAMBDA applied :
              Let(ReplaceCalls(t, j + 1, func, xValue, config, applied.scope),
                  LAMBDA rest :
                  [body  |-> SubSeq(t, from, i - 1)
                             \o (IF applied.v # Null THEN NumberToString(applied.v)
                                 ELSE SubSeq(t, i, j))
                             \o rest.body,
                   depth |-> Max(Max(inner.depth, applied.depth), rest.depth),
                   calls |-> inner.calls + applied.calls + rest.calls,
                   scope |-> rest.scope,
                   rewritten |-> inner.rewritten \cup applied.rewritten
                                 \cup rest.rewritten
                                 \cup (IF applied.v # Null THEN {func} ELSE {}),
                   failed |-> rest.failed
                              \cup (IF applied.v # Null THEN {} ELSE {func})])))))

\* functions.forEach without the guard of its first lines: no FunctionDef
\* is skipped
ResolveEveryFunction(t, n, xValue, config, scope) ==
    IF n > Len(config.functions)
    THEN [body |-> t, depth |-> 0, calls |-> 0, scope |-> scope, rewritten |-> {},
          failed |-> {}]
    ELSE Let(ReplaceCalls(t, 1, config.functions[n], xValue, config, scope),
             LAMBDA here :
         Let(ResolveFunctions(here.body, n + 1, xValue, config, here.scope),
             LAMBDA rest :
             [body  |-> rest.body,
              depth |-> Max(here.depth, rest.depth),
              calls |-> here.calls + rest.calls,
              scope |-> rest.scope,
              rewritten |-> here.rewritten \cup rest.rewritten,
              failed |-> here.failed \cup rest.failed]))

\* functions.forEach from the n-th FunctionDef on, on the text so far
ResolveFunctions(t, n, xValue, config, scope) ==
    IF n > Len(config.functions)
    THEN [body |-> t, depth |-> 0, calls |-> 0, scope |-> scope, rewritten |-> {},
          failed |-> {}]
    ELSE IF config.functions[n].id = config.currentFuncId
            \/ config.functions[n].visible = FALSE
    THEN ResolveFunctions(t, n + 1, xValue, config, scope)
    ELSE Let(ReplaceCalls(t, 1, config.functions[n], xValue, config, scope),
             LAMBDA here :
         Let(ResolveFunctions(here.body, n + 1, xValue, config, here.scope),
             LAMBDA rest :
             [body  |-> rest.body,
              depth |-> Max(here.depth, rest.depth),
              calls |-> here.calls + rest.calls,
              scope |-> rest.scope,
              rewritten |-> here.rewritten \cup rest.rewritten,
              failed |-> here.failed \cup rest.failed]))

Evaluate(expr, xValue, config, scope) ==
    Let(ResolveFunctions(expr, 1, xValue, config, scope), LAMBDA resolved :
    Let(EvaluateText(resolved.body, xValue, config.independentVar, config.variables,
                     resolved.scope),
        LAMBDA outcome :
        [depth |-> 1 + resolved.depth,
         calls |-> 1 + resolved.calls,
         v     |-> FiniteOrNull(outcome),
         body  |-> preprocessExpression(resolved.body),
         err   |-> outcome.err,
         scope |-> outcome.scope,
         rewritten |-> resolved.rewritten,
         failed |-> resolved.failed]))

\* the call made in the current state of the engine
evaluateExpression(expr, xValue, config) == Evaluate(expr, xValue, config, globals).v

---------------------------------------------------------------------------
(* The Differentiator.                                                     *)

\* h = 0.0001
DefaultStep == Num(1, -4)

\* the step in use: the default for a missing h
StepOf(h) == IF h = Undefined THEN DefaultStep ELSE h

\* the forward difference (f(x + h) - f(x)) / (2h): the second evaluation at
\* xValue
DifferentiateForward(expr, xValue, config, h, scope) ==
    Let(Evaluate(expr, Add(xValue, h), config, scope), LAMBDA f1 :
    Let(Evaluate(expr, xValue, config, f1.scope), LAMBDA f2 :
        [v     |-> IF f1.v = Null \/ f2.v = Null THEN Null
                   ELSE Div(Sub(f1.v, f2.v), Mul(Two, h)),
         f1    |-> f1.v,
         f2    |-> f2.v,
         scope |-> f2.scope]))

\* [v, f1, f2, scope]: the value returned, the two evaluations it made, for
\* the step h in use, and the properties of the global object afterwards
Differentiate(expr, xValue, config, h, scope) ==
    Let(Evaluate(expr, Add(xValue, h), config, scope), LAMBDA f1 :
    Let(Evaluate(expr, Sub(xValue, h), config, f1.scope), LAMBDA f2 :
        [v     |-> IF f1.v = Null \/ f2.v = Null THEN Null
                   ELSE Div(Sub(f1.v, f2.v), Mul(Two, h)),
         f1    |-> f1.v,
         f2    |-> f2.v,
         scope |-> f2.scope]))

\* the call made in the current state of the engine
numericalDerivative(expr, xValue, config, h) ==
    Differentiate(expr, xValue, config, StepOf(h), globals).v

---------------------------------------------------------------------------
(* The inputs of the calls.                                                *)

\* longest text the Normalizer is called on, every text over its alphabet
MaxTextLen == 4

\* longest expression the evaluators are called on, every text over theirs
MaxExprLen == 3

\* longest Variable list
MaxVariables == 2

NormalizerAlphabet == {"^", "2", "(", ")", "p", "I", "e", "x"}

NormalizerTexts == TextsUpTo(NormalizerAlphabet, MaxTextLen)

Variable(n, v) == [name |-> n, nameType |-> "string", value |-> v]

\* entries of a Variable list: finite and non-finite numbers, a value that
\* is no number, a name that is no string, a null entry
VariableEntries ==
    {Variable(n, v) : n \in {<<"a">>, <<"b">>},
                      v \in {Num(2, 0), Num(5, -1), NaN, Inf(1), StringValue}}
    \cup {[name |-> <<>>, nameType |-> "number", value |-> Num(2, 0)],
          [name |-> <<>>, nameType |-> "undefined", value |-> Undefined]}

\* all sequences over a set, of length at most n
RECURSIVE SeqsUpTo(_, _)
SeqsUpTo(S, n) ==
    IF n = 0 THEN {<<>>}
    ELSE LET shorter == SeqsUpTo(S, n - 1)
         IN  shorter \cup {Append(q, x) : q \in shorter, x \in S}

VariableLists == SeqsUpTo(VariableEntries, MaxVariables)

\* longest list of FunctionDefs
MaxFunctions == 2

\* longest expression with calls the Composition Resolver is called on,
\* every text over its alphabet
MaxCallLen == 4

\* the Variable list of the tests: pi, a = 2, b = 0.5, c = 1
baseVariables ==
    <<Variable(<<"p", "i">>, Pi), Variable(<<"a">>, Num(2, 0)),
      Variable(<<"b">>, Num(5, -1)), Variable(<<"c">>, One)>>

\* points: zero, small integers of both signs, a fraction, numbers whose
\* decimal form has an exponent, and the non-finite numbers
Points ==
    {Zero, Num(3, 0), Num(-2, 0), Num(5, -1), Num(1, -7), Num(1, 21),
     NaN, Inf(1)}

FinitePoints == {v \in Points : IsFinite(v)}

EvaluatorAlphabet == {"1", "x", "a", "-", "^", "(", ")", " "}

EvaluatorTexts == TextsUpTo(EvaluatorAlphabet, MaxExprLen)

\* expressions of the tests and of the calculator's guide
GuideTexts ==
    {<<"2", "p", "i", " ", "+", " ", "3", "x">>,
     <<"a", "*", "s", "i", "n", "(", "b", "*", "x", ")", " ", "+", " ", "c">>,
     <<"1", "/", "(">>, <<"s", "i", "n", "(", "x", ")">>,
     <<"u", "^", "3">>, <<"1", "/", "x">>, <<"1", "/", "I", "n", "f", "i", "n", "i", "t", "y">>,
     <<"f", "(", "x", ")">>, <<"g", "(", "x", ")">>,
     <<"f", "(", "x", ")", "^", "2">>, <<"f", "(", "g", "(", "x", ")", ")">>,
     <<"2", "-", "f", "(", "x", ")">>, <<"l", "o", "g", "(", "x", ")">>}

\* names: of library constants and functions, of variables, of independent
\* variables, in the spellings the Normalizer rewrites and in others
NameTexts ==
    {<<"x">>, <<"u">>, <<"a">>, <<"e">>, <<"E">>, <<"p", "i">>, <<"P", "I">>, <<"s", "i", "n">>}

\* bindings of those names, and one of a name that is no identifier
NameVariableEntries ==
    {Variable(<<"a">>, Num(2, 0)), Variable(<<"e">>, Num(5, 0)),
     Variable(<<"P", "I">>, Num(3, 0)), Variable(<<"p", "i">>, Num(4, 0)),
     Variable(<<"u">>, Num(-6, 0)), Variable(<<"2">>, Num(9, 0))}

FunctionDef(id, expr, dependentVar, independentVar, visible) ==
    [id |-> id, expr |-> expr, visible |-> visible,
     independentVar |-> independentVar, dependentVar |-> dependentVar]

\* the FunctionDef of the tests: f(x) = a*sin(b*x) + c
baseFunction == FunctionDef(1, <<"a", "*", "s", "i", "n", "(", "b", "*", "x", ")", " ", "+", " ", "c">>, <<"f">>, <<"x">>, TRUE)

\* FunctionDefs: the identity, a function of negative values, two that
\* reference each other, one that references the first, one with the
\* default names, a hidden one
FunctionPool ==
    {FunctionDef(1, <<"x">>, <<"f">>, <<"x">>, TRUE),
     FunctionDef(1, <<"g", "(", "x", ")">>, <<"f">>, <<"x">>, TRUE),
     FunctionDef(2, <<"f", "(", "x", ")">>, <<"g">>, <<"x">>, TRUE),
     FunctionDef(2, <<"-", "x">>, <<"g">>, <<"x">>, TRUE),
     FunctionDef(3, <<"x", "^", "2">>, <<>>, <<>>, TRUE),
     FunctionDef(3, <<"1", "/", "x">>, <<"g">>, <<"x">>, FALSE)}

\* the lists of at most n FunctionDefs of the pool with distinct ids
RECURSIVE FunctionListsUpTo(_)
FunctionListsUpTo(n) ==
    IF n = 0 THEN {<<>>}
    ELSE LET shorter == FunctionListsUpTo(n - 1)
         IN  shorter \cup
             UNION {{Append(q, f) :
                        f \in {g \in FunctionPool :
                                  \A i \in DOMAIN q : q[i].id # g.id}} :
                    q \in shorter}

FunctionLists == FunctionListsUpTo(MaxFunctions)

Config(independentVar, currentFuncId, list, variables) ==
    [independentVar |-> independentVar, currentFuncId |-> currentFuncId,
     functions |-> list, variables |-> variables]

\* the arguments of no call: the defaults of the destructured config
NoArgs ==
    [expr |-> <<>>, xValue |-> Zero, independentVar |-> <<"x">>,
     currentFuncId |-> NoFunction, functions |-> <<>>, variables |-> <<>>,
     h |-> Undefined]

CallAlphabet == {"f", "g", "x", "(", ")"}

CallTexts == TextsUpTo(CallAlphabet, MaxCallLen)

\* the FunctionDef lists the texts over CallAlphabet are evaluated with
\* (f and g both defined) and the Variable lists of the calls
CallFunctionLists == {fs \in FunctionLists : Len(fs) = 2 /\ fs[2].id = 2}

CallVariableLists == {<<>>, baseVariables}

\* the steps: the default, zero, and steps above and below it
Steps == {Undefined, Zero, One, Num(5, -1), Num(1, -5)}

DerivativeTexts ==
    {<<"x">>, <<"x", "^", "2">>, <<"1", "/", "x">>, <<"s", "i", "n", "(", "x", ")">>, <<"f", "(", "x", ")">>,
     <<"u", "^", "3">>, <<"1", "/", "(">>}

\* the calls with every combination of the given arguments
Calls(exprs, points, names, ids, functionLists, variableLists, steps) ==
    [expr : exprs, xValue : points, independentVar : names, currentFuncId : ids,
     functions : functionLists, variables : variableLists, h : steps]

\* the config argument of a call
ConfigOf(call) ==
    Config(call.independentVar, call.currentFuncId, call.functions, call.variables)

\* evaluateExpressionSimple: every short text; the guide's expressions at
\* every point; every name as the expression under every binding of names
SimpleCalls ==
    Calls(EvaluatorTexts, {Zero, Num(3, 0), Num(-2, 0)}, {<<"x">>}, {NoFunction},
          {<<>>}, {<<>>, <<Variable(<<"a">>, Num(2, 0))>>}, {Undefined})
    \cup Calls(GuideTexts, Points, {<<"x">>}, {NoFunction}, {<<>>},
               CallVariableLists, {Undefined})
    \cup Calls(NameTexts, {Num(7, 0), NaN}, NameTexts, {NoFunction}, {<<>>},
               SeqsUpTo(NameVariableEntries, MaxVariables), {Undefined})

\* evaluateExpression: every short text of calls with f and g defined; the
\* guide's expressions with every list of FunctionDefs
FullCalls ==
    Calls(CallTexts, {Num(3, 0)}, {<<"x">>}, {NoFunction, 1}, CallFunctionLists,
          {<<>>}, {Undefined})
    \cup Calls(GuideTexts, Points, {<<"x">>}, {NoFunction, 1, 2},
               FunctionLists \cup {<<baseFunction>>}, CallVariableLists, {Undefined})

\* expressions that assign to a name that is not a parameter, and
\* expressions that read it
SessionTexts ==
    {<<"y">>, <<"y", "=", "5">>, <<"y", "=", "x">>, <<"x", "+", "y">>,
     <<"(", "y", "=", "2", ")", "+", "z">>, <<"f", "(", "y", "=", "1", ")">>}

SessionCalls ==
    Calls(SessionTexts, {Zero, Num(3, 0)}, {<<"x">>}, {NoFunction},
          {<<>>, <<FunctionDef(1, <<"x">>, <<"f">>, <<"x">>, TRUE)>>}, {<<>>},
          {Undefined})

DerivativeCalls ==
    Calls(DerivativeTexts, Points, {<<"x">>, <<"u">>}, {NoFunction, 1},
          {fs \in FunctionLists : Len(fs) <= 1} \cup {<<baseFunction>>},
          CallVariableLists, Steps)

---------------------------------------------------------------------------
(* The state machine: a call is made from the idle state with inputs drawn *)
(* from the sets above and runs to its return; Return goes back to idle.   *)
(* The module keeps nothing from one call to the next; the engine's global *)
(* object does.                                                            *)

\* useState([{ id: 1, expr: 'a*sin(b*x) + c', ..., visible: true,
\* independentVar: 'x', dependentVar: 'f' }])
InitialFunctions ==
    <<FunctionDef(1, <<"a", "*", "s", "i", "n", "(", "b", "*", "x", ")", " ", "+", " ", "c">>,
                  <<"f">>, <<"x">>, TRUE)>>

\* an event of the function panel: the handler, the id of the function of
\* the row and the text of the input element
Event(handler, id, input) == [handler |-> handler, id |-> id, input |-> input]

NoEvent == Event("none", NoFunction, <<>>)

NoTrace ==
    [depth |-> 0, calls |-> 0, f1 |-> Undefined, f2 |-> Undefined, err |-> "",
     rewritten |-> {}, failed |-> {}]

Init ==
    /\ pc = "idle"
    /\ op = "none"
    /\ args = NoArgs
    /\ result = Undefined
    /\ text = <<>>
    /\ context = <<>>
    /\ trace = NoTrace
    /\ globals = <<>>
    /\ functions = InitialFunctions
    /\ selectedFunction = 1
    /\ error = <<>>
    /\ pending = <<>>
    /\ event = NoEvent

\* preprocessExpression(expr)
Preprocess ==
    /\ pc = "idle"
    /\ \E t \in NormalizerTexts :
          /\ args' = [NoArgs EXCEPT !.expr = t]
          /\ text' = preprocessExpression(t)
    /\ pc' = "done"
    /\ op' = "preprocessExpression"
    /\ UNCHANGED <<result, context, trace, globals>>
    /\ UNCHANGED panel

\* buildVariableContext(variables)
BuildContext ==
    /\ pc = "idle"
    /\ \E vs \in VariableLists :
          /\ args' = [NoArgs EXCEPT !.variables = vs]
          /\ context' = buildVariableContext(vs)
    /\ pc' = "done"
    /\ op' = "buildVariableContext"
    /\ UNCHANGED <<result, text, trace, globals>>
    /\ UNCHANGED panel

\* evaluateExpressionSimple(expr, xValue, { independentVar, variables })
\* has returned r
SimpleReturn(call, r) ==
    /\ args' = call
    /\ result' = r.v
    /\ text' = r.body
    /\ trace' = [NoTrace EXCEPT !.err = r.err]
    /\ globals' = r.scope

SimpleCall(calls) ==
    /\ pc = "idle"
    /\ \E call \in calls :
          SimpleReturn(call, EvaluateSimply(call.expr, call.xValue,
                                            call.independentVar, call.variables,
                                            globals))
    /\ pc' = "done"
    /\ op' = "evaluateExpressionSimple"
    /\ UNCHANGED context
    /\ UNCHANGED panel

EvaluateSimple == SimpleCall(SimpleCalls)

\* evaluateExpression(expr, xValue, { independentVar, currentFuncId,
\* functions, variables }) has returned r
FullReturn(call, r) ==
    /\ args' = call
    /\ result' = r.v
    /\ text' = r.body
    /\ trace' = [NoTrace EXCEPT !.depth = r.depth, !.calls = r.calls, !.err = r.err,
                                !.rewritten = r.rewritten, !.failed = r.failed]
    /\ globals' = r.scope

FullCall(calls) ==
    /\ pc = "idle"
    /\ \E call \in calls :
          FullReturn(call, Evaluate(call.expr, call.xValue, ConfigOf(call), globals))
    /\ pc' = "done"
    /\ op' = "evaluateExpression"
    /\ UNCHANGED context
    /\ UNCHANGED panel

EvaluateFull == FullCall(FullCalls)

\* numericalDerivative(expr, xValue, { independentVar, currentFuncId,
\* functions, variables, h }) has returned d.v
DerivativeReturn(call, d) ==
    /\ args' = call
    /\ result' = d.v
    /\ trace' = [NoTrace EXCEPT !.f1 = d.f1, !.f2 = d.f2]
    /\ globals' = d.scope

DerivativeCall(calls) ==
    /\ pc = "idle"
    /\ \E call \in calls :
          DerivativeReturn(call, Differentiate(call.expr, call.xValue, ConfigOf(call),
                                               StepOf(call.h), globals))
    /\ pc' = "done"
    /\ op' = "numericalDerivative"
    /\ UNCHANGED <<text, context>>
    /\ UNCHANGED panel

Derivative == DerivativeCall(DerivativeCalls)

\* the call has returned to its caller
Return ==
    /\ pc = "done"
    /\ pc' = "idle"
    /\ op' = "none"
    /\ args' = NoArgs
    /\ result' = Undefined
    /\ text' = <<>>
    /\ context' = <<>>
    /\ trace' = NoTrace
    /\ UNCHANGED globals
    /\ UNCHANGED panel

NextEvaluator == EvaluateSimple \/ EvaluateFull \/ Return

SpecEvaluator == Init /\ [][NextEvaluator]_vars

NextDifferentiator == Derivative \/ Return

SpecDifferentiator == Init /\ [][NextDifferentiator]_vars

NextNormalizer == Preprocess \/ Return

SpecNormalizer == Init /\ [][NextNormalizer]_vars

NextContext == BuildContext \/ Return

SpecContext == Init /\ [][NextContext]_vars

---------------------------------------------------------------------------
(* The function panel of the component.  An event handler runs on the      *)
(* state of the last render: its set-state calls are queued, and the next  *)
(* render applies them in order, before another event is handled.          *)

\* longest functions list the panel grows to
MaxPanelFunctions == 18

\* the rows whose delete button and left-side input are used
RowIds == {1, 2}

\* const letters = 'fghijklmnpqrstuvw'
letters ==
    <<"f", "g", "h", "i", "j", "k", "l", "m", "n", "p", "q", "r", "s", "t", "u",
      "v", "w">>

\* a queued set-state call: the state and its new value
SetState(state, value) == [state |-> state, value |-> value]

\* the value of the state after the queued calls from the n-th on, current
\* being its value before them
RECURSIVE Applied(_, _, _, _)
Applied(state, current, queue, n) ==
    IF n > Len(queue) THEN current
    ELSE Applied(state, IF queue[n].state = state THEN queue[n].value ELSE current,
                 queue, n + 1)

\* Math.max(...functions.map(f => f.id)) + 1
NewId(list) == 1 + CHOOSE i \in {list[n].id : n \in DOMAIN list} :
                       \A n \in DOMAIN list : list[n].id <= i

\* letters.split('').find(l => !usedLetters.includes(l)) || 'f'
NextLetter(list) ==
    LET usedLetters == {FuncName(list[n]) : n \in DOMAIN list}
        free == {k \in DOMAIN letters : <<letters[k]>> \notin usedLetters}
    IN  IF free = {} THEN "f"
        ELSE letters[CHOOSE k \in free : \A q \in free : k <= q]

\* the handler addFunction: setFunctions([...functions, { id: newId,
\* expr: 'x^2', visible: true, independentVar: 'x', dependentVar: nextLetter }])
AddFunction ==
    /\ pending = <<>>
    /\ Len(functions) < MaxPanelFunctions
    /\ pending' = <<SetState("functions",
                             Append(functions,
                                    FunctionDef(NewId(functions), <<"x", "^", "2">>,
                                                <<NextLetter(functions)>>, <<"x">>,
                                                TRUE)))>>
    /\ event' = Event("addFunction", NoFunction, <<>>)
    /\ UNCHANGED <<functions, selectedFunction, error>>
    /\ UNCHANGED core

\* the functions of the list other than id, in order
RECURSIVE Without(_, _)
Without(list, id) ==
    IF list = <<>> THEN <<>>
    ELSE IF Head(list).id = id THEN Without(Tail(list), id)
    ELSE <<Head(list)>> \o Without(Tail(list), id)

\* the handler deleteFunction(id) of the row's button, which is rendered
\* when functions.length > 1
DeleteFunction ==
    /\ pending = <<>>
    /\ Len(functions) > 1
    /\ \E n \in DOMAIN functions :
          /\ functions[n].id \in RowIds
          /\ pending' =
                <<SetState("functions", Without(functions, functions[n].id))>>
                \o (IF selectedFunction = functions[n].id
                    THEN <<SetState("selectedFunction",
                                    Head(Without(functions, functions[n].id)).id)>>
                    ELSE <<>>)
          /\ event' = Event("deleteFunction", functions[n].id, <<>>)
    /\ UNCHANGED <<functions, selectedFunction, error>>
    /\ UNCHANGED core

\* the render after the handler: the queued calls are applied in order
Render ==
    /\ pending # <<>>
    /\ functions' = Applied("functions", functions, pending, 1)
    /\ selectedFunction' = Applied("selectedFunction", selectedFunction, pending, 1)
    /\ error' = Applied("error", error, pending, 1)
    /\ pending' = <<>>
    /\ UNCHANGED event
    /\ UNCHANGED core

NextFunctionList == AddFunction \/ DeleteFunction \/ Render

SpecFunctionList == Init /\ [][NextFunctionList]_vars

\* \w
IsWord(c) == IsLetter(c) \/ IsDigit(c) \/ c = "_"

\* [a-zA-Z_]\w* on the whole of s
IsName(s) ==
    /\ s # <<>>
    /\ IsLetter(s[1]) \/ s[1] = "_"
    /\ \A j \in DOMAIN s : IsWord(s[j])

\* String.prototype.trim, on texts whose white space is the space
RECURSIVE Trim(_)
Trim(s) ==
    IF s = <<>> THEN s
    ELSE IF Head(s) = " " THEN Trim(Tail(s))
    ELSE IF s[Len(s)] = " " THEN Trim(SubSeq(s, 1, Len(s) - 1))
    ELSE s

\* the position of the first "(" of s, 0 if there is none
FirstOpen(s) ==
    IF \E i \in DOMAIN s : s[i] = "("
    THEN CHOOSE i \in DOMAIN s : s[i] = "(" /\ \A j \in 1..(i - 1) : s[j] # "("
    ELSE 0

NoMatch == [matched |-> FALSE, name |-> <<>>, var |-> <<>>]

\* input.match(/^([a-zA-Z_]\w*)\(([a-zA-Z_]\w*)\)$/): the two groups
SimpleMatch(input) ==
    Let(FirstOpen(input), LAMBDA k :
        IF /\ k > 1
           /\ input[Len(input)] = ")"
           /\ IsName(SubSeq(input, 1, k - 1))
           /\ IsName(SubSeq(input, k + 1, Len(input) - 1))
        THEN [matched |-> TRUE, name |-> SubSeq(input, 1, k - 1),
              var |-> SubSeq(input, k + 1, Len(input) - 1)]
        ELSE NoMatch)

\* input.match(/\(([a-zA-Z_]\w*)\)/): the group of the leftmost match
VarMatch(input) ==
    LET starts == {i \in DOMAIN input :
                      /\ input[i] = "("
                      /\ \E j \in (i + 2)..Len(input) :
                            input[j] = ")" /\ IsName(SubSeq(input, i + 1, j - 1))}
    IN  IF starts = {} THEN NoMatch
        ELSE Let(CHOOSE i \in starts : \A q \in starts : i <= q, LAMBDA i :
                 [matched |-> TRUE, name |-> <<>>,
                  var |-> SubSeq(input, i + 1, FirstClose(input, i + 1) - 1)])

\* input.replace(/\([^)]+\)/g, '(*)') from position i on
RECURSIVE ReplaceParens(_, _)
ReplaceParens(t, i) ==
    IF i > Len(t) THEN <<>>
    ELSE IF t[i] = "(" /\ FirstClose(t, i + 1) > i + 1
    THEN <<"(", "*", ")">> \o ReplaceParens(t, FirstClose(t, i + 1) + 1)
    ELSE <<t[i]>> \o ReplaceParens(t, i + 1)

\* functions.map(f => f.id === id ? { ...f, [field]: value } : f)
Updated(list, id, field, value) ==
    [n \in DOMAIN list |->
        IF list[n].id = id THEN [list[n] EXCEPT ![field] = value] ELSE list[n]]

\* updateFunction(id, field, value): setFunctions(functions.map(...)) on the
\* functions of the last render, then setError('')
UpdateFunction(id, field, value) ==
    <<SetState("functions", Updated(functions, id, field, value)),
      SetState("error", <<>>)>>

\* the texts typed into the left-side input
BlurTexts ==
    {<<"g", "(", "t", ")">>, <<" ", "h", "(", "u", ")">>, <<"f", "(", "x", ")">>,
     <<"[", "f", "(", "t", ")", "]", "^", "2">>, <<"g", "t">>}

\* the set-state calls the onBlur handler makes on the trimmed input
BlurCalls(id, input) ==
    IF SimpleMatch(input).matched
    THEN UpdateFunction(id, "dependentVar", SimpleMatch(input).name)
         \o UpdateFunction(id, "independentVar", SimpleMatch(input).var)
    ELSE IF VarMatch(input).matched
    THEN UpdateFunction(id, "dependentVar", ReplaceParens(input, 1))
         \o UpdateFunction(id, "independentVar", VarMatch(input).var)
    ELSE <<>>

\* the onBlur handler of the left-side input of a row
Blur ==
    /\ pending = <<>>
    /\ \E n \in DOMAIN functions, input \in BlurTexts :
          /\ functions[n].id \in RowIds
          /\ pending' = BlurCalls(functions[n].id, Trim(input))
          /\ event' = Event("onBlur", functions[n].id, input)
    /\ UNCHANGED <<functions, selectedFunction, error>>
    /\ UNCHANGED core

NextPanel == AddFunction \/ DeleteFunction \/ Blur \/ Render

SpecPanel == Init /\ [][NextPanel]_vars

\* a session of calls on expressions that assign
SessionSimple == SimpleCall(SessionCalls)

SessionFull == FullCall(SessionCalls)

SessionDerivative == DerivativeCall(SessionCalls)

NextSession == SessionSimple \/ SessionFull \/ SessionDerivative \/ Return

SpecSession == Init /\ [][NextSession]_vars

---------------------------------------------------------------------------
(* The claims about the Evaluator and the Composition Resolver, checked     *)
(* under SpecEvaluator.                                                     *)

Evaluators == {"evaluateExpressionSimple", "evaluateExpression"}

\* the names the three context sources of a call bind
BoundNames(call) ==
    DOMAIN safeMath \cup DOMAIN buildVariableContext(call.variables)
        \cup {call.independentVar}

\* the names a body text refers to
ReferencedNames(body) ==
    {tok.s : tok \in {k \in Range(Scan(body, 1)) : k.t = "id"}}

\* C1: a call of evaluateExpressionSimple or of evaluateExpression returns
\* a finite number or null: never NaN, an infinity or a non-number, and
\* what is thrown inside is caught and returned as null.
C1_FiniteOrNull ==
    pc = "done" /\ op \in Evaluators => result = Null \/ IsFinite(result)

\* 1/x at 0: the engine returns Infinity without an error, the call null
C1_Witness ==
    /\ pc = "done"
    /\ op = "evaluateExpressionSimple"
    /\ args.expr = <<"1", "/", "x">>
    /\ args.xValue = Zero
    /\ trace.err = ""
    /\ result = Null

\* C2: both evaluators return null whenever the text handed to the engine
\* fails to parse or refers to a name that none of the three context
\* sources (library, Variable list, independent variable) binds.
C2_NullOnUnparsedOrUnbound ==
    (/\ pc = "done"
     /\ op \in Evaluators
     /\ \/ ReturnStatement(Scan(text, 1), <<>>, FALSE).err # ""
        \/ ReferencedNames(text) \ BoundNames(args) # {})
    => result = Null

\* whether no two FunctionDefs of the list have the same name
UniqueNames(list) ==
    \A i, j \in DOMAIN list :
        FuncName(list[i]) = FuncName(list[j]) => i = j

\* the text of the call of func on the name n: "<dependentVar>(<n>)"
BareCall(func, n) == FuncName(func) \o <<"(">> \o n \o <<")">>

\* C3: for a visible FunctionDef F other than the current one (the names of
\* the FunctionDefs being distinct) and a point where
\* evaluateExpressionSimple(F.expr, p, {F.independentVar, variables})
\* returns a number v, evaluateExpression of the bare call
\* "<F.dependentVar>(<independentVar>)" at p returns v.
C3_BareCallComposes ==
    pc = "done" /\ op = "evaluateExpression" /\ UniqueNames(args.functions) =>
        \A n \in DOMAIN args.functions :
            (/\ args.functions[n].visible
             /\ args.functions[n].id # args.currentFuncId
             /\ args.expr = BareCall(args.functions[n], args.independentVar)
             /\ evaluateExpressionSimple(args.functions[n].expr, args.xValue,
                                         FuncIndepVar(args.functions[n]),
                                         args.variables) # Null)
            => result = evaluateExpressionSimple(args.functions[n].expr, args.xValue,
                                                 FuncIndepVar(args.functions[n]),
                                                 args.variables)

\* C4: the nesting depth of the recursive evaluateExpression calls under a
\* call never exceeds the length of the expression text it was called on,
\* however the expressions of the FunctionDefs reference each other.
C4_DepthBounded ==
    pc = "done" /\ op = "evaluateExpression" => trace.depth - 1 <= Len(args.expr)

\* whether the list is two visible functions that reference each other:
\* f = g(x) and g = f(x)
IsCycle(list) ==
    /\ Len(list) = 2
    /\ \A n \in {1, 2} : list[n].visible /\ list[n].independentVar = <<"x">>
    /\ \E n \in {1, 2} :
          /\ list[n].dependentVar = <<"f">>
          /\ list[n].expr = <<"g", "(", "x", ")">>
          /\ list[3 - n].dependentVar = <<"g">>
          /\ list[3 - n].expr = <<"f", "(", "x", ")">>

\* a recursive call was made, on the inner text of a match, under functions
\* that reference each other
C4_Witness ==
    /\ pc = "done"
    /\ op = "evaluateExpression"
    /\ IsCycle(args.functions)
    /\ args.expr = <<"f", "(", "g", "(", "x", ")", ")">>
    /\ trace.depth = 2

\* the id of the function of the list whose expression is expr
IdOf(list, expr) ==
    list[CHOOSE n \in DOMAIN list : list[n].expr = expr].id

\* C5: with two visible functions that reference each other (f = g(x),
\* g = f(x)), evaluateExpression of either function's expression with that
\* function as the current one, and of "f(x)" or "g(x)" with no current
\* function, returns null after a bounded number of evaluateExpression
\* calls (at most the length of the text).
C5_CycleSafe ==
    (/\ pc = "done"
     /\ op = "evaluateExpression"
     /\ IsCycle(args.functions)
     /\ args.independentVar = <<"x">>
     /\ args.expr \in {<<"f", "(", "x", ")">>, <<"g", "(", "x", ")">>}
     /\ args.currentFuncId \in {NoFunction, IdOf(args.functions, args.expr)})
    => (result = Null /\ trace.calls <= Len(args.expr))

\* f's own expression g(x) evaluated as the current function at 3: g(x) is
\* matched, its argument evaluated, and null returned
C5_Witness ==
    /\ pc = "done"
    /\ op = "evaluateExpression"
    /\ IsCycle(args.functions)
    /\ args.expr = <<"g", "(", "x", ")">>
    /\ args.currentFuncId = IdOf(args.functions, args.expr)
    /\ args.xValue = Num(3, 0)
    /\ trace.calls = 2
    /\ result = Null

\* the value the highest-priority source binds to the name n: the
\* independent variable, else the Variable list, else the library
Binding(call, n) ==
    IF n = call.independentVar THEN call.xValue
    ELSE IF n \in DOMAIN buildVariableContext(call.variables)
    THEN buildVariableContext(call.variables)[n]
    ELSE safeMath[n]

\* C10 as stated: for a name bound in at least one of the three sources,
\* evaluateExpressionSimple of the name alone returns the value the
\* highest-priority source binds to it.
C10_ReturnsBinding ==
    (/\ pc = "done"
     /\ op = "evaluateExpressionSimple"
     /\ args.expr \in BoundNames(args))
    => result = Binding(args, args.expr)

\* C10, amended: for an identifier that the Normalizer leaves as it is and
\* that one of the three sources binds, all bound names being identifiers,
\* evaluateExpressionSimple of the name alone returns the value the
\* highest-priority source binds to it if that is a finite number, and null
\* otherwise.
C10_Shadowing ==
    (/\ pc = "done"
     /\ op = "evaluateExpressionSimple"
     /\ args.expr \in BoundNames(args)
     /\ preprocessExpression(args.expr) = args.expr
     /\ \A n \in BoundNames(args) : IsParameterName(n))
    => result = IF IsFinite(Binding(args, args.expr)) THEN Binding(args, args.expr)
                ELSE Null

\* PI bound by all three sources: the independent variable's value wins
C10_Witness ==
    /\ pc = "done"
    /\ op = "evaluateExpressionSimple"
    /\ args.expr = <<"P", "I">>
    /\ args.independentVar = <<"P", "I">>
    /\ args.variables = <<Variable(<<"P", "I">>, Num(3, 0))>>
    /\ args.xValue = Num(7, 0)
    /\ result = Num(7, 0)

---------------------------------------------------------------------------
(* The claims about the Differentiator, checked under SpecDifferentiator.  *)

\* C6: numericalDerivative evaluates expr through evaluateExpression at
\* xValue + h and at xValue - h with the caller's independentVar,
\* currentFuncId, functions and variables; it returns null if and only if
\* one of the two evaluations returned null, and (f1 - f2) / (2h)
\* otherwise.
C6_CentralDifference ==
    pc = "done" /\ op = "numericalDerivative" =>
        /\ trace.f1 = evaluateExpression(args.expr, Add(args.xValue, StepOf(args.h)),
                                         ConfigOf(args))
        /\ trace.f2 = evaluateExpression(args.expr, Sub(args.xValue, StepOf(args.h)),
                                         ConfigOf(args))
        /\ (result = Null) <=> (trace.f1 = Null \/ trace.f2 = Null)
        /\ (result # Null) =>
              (result = Div(Sub(trace.f1, trace.f2), Mul(Two, StepOf(args.h))))

\* x^2 at 3 with h = 0.5: (12.25 - 6.25) / 1
C6_Witness ==
    /\ pc = "done"
    /\ op = "numericalDerivative"
    /\ args.expr = <<"x", "^", "2">>
    /\ args.independentVar = <<"x">>
    /\ args.xValue = Num(3, 0)
    /\ args.h = Num(5, -1)
    /\ trace.f1 = Num(1225, -2)
    /\ trace.f2 = Num(625, -2)
    /\ result = Num(6, 0)

\* C7: numericalDerivative returns null or a finite number for every
\* expression, point and step, h = 0 included: never NaN or an infinity.
C7_FiniteOrNull ==
    pc = "done" /\ op = "numericalDerivative" => result = Null \/ IsFinite(result)

---------------------------------------------------------------------------
(* The claim about the Normalizer, checked under SpecNormalizer.           *)

\* C8: preprocessExpression is idempotent: applied to its own output it
\* changes nothing.
C8_Idempotent ==
    pc = "done" /\ op = "preprocessExpression" => preprocessExpression(text) = text

\* a text that four of the rules rewrite: 2pI^ becomes 2*PI**
C8_Witness ==
    /\ pc = "done"
    /\ op = "preprocessExpression"
    /\ args.expr = <<"2", "p", "I", "^">>
    /\ text = <<"2", "*", "P", "I", "*", "*">>

---------------------------------------------------------------------------
(* The claim about the Context Builder, checked under SpecContext.         *)

\* the entries of the list with a string name and a finite number value
ValidEntries(variables) ==
    {i \in DOMAIN variables :
        variables[i].nameType = "string" /\ IsFinite(variables[i].value)}

\* C9: the mapping has an entry for a name if and only if the list has a
\* Variable of that name whose name is a string and whose value is a finite
\* number, and its value is that of the last such Variable of the list.
C9_FiniteEntriesOnly ==
    pc = "done" /\ op = "buildVariableContext" =>
        \A n \in DOMAIN context \cup {args.variables[i].name : i \in DOMAIN args.variables} :
            /\ (n \in DOMAIN context) <=>
                  (\E i \in ValidEntries(args.variables) : args.variables[i].name = n)
            /\ (n \in DOMAIN context) =>
                  (\E i \in ValidEntries(args.variables) :
                      /\ args.variables[i].name = n
                      /\ context[n] = args.variables[i].value
                      /\ \A j \in ValidEntries(args.variables) :
                            (args.variables[j].name = n) => (j <= i))

---------------------------------------------------------------------------
(* The engine between the calls.                                           *)

\* what the call recorded in args returns when it is the first call made,
\* the global object having no property yet
FirstResult ==
    CASE op = "evaluateExpressionSimple" ->
             EvaluateSimply(args.expr, args.xValue, args.independentVar,
                            args.variables, <<>>).v
      [] op = "evaluateExpression" ->
             Evaluate(args.expr, args.xValue, ConfigOf(args), <<>>).v
      [] op = "numericalDerivative" ->
             Differentiate(args.expr, args.xValue, ConfigOf(args), StepOf(args.h),
                           <<>>).v
      [] OTHER -> result

\* C11: referential transparency: a call of evaluateExpressionSimple,
\* evaluateExpression or numericalDerivative returns what the identical call
\* (same expression text, point and config) returns when it is the first
\* call made, whatever calls were made before it.
C11_SameResultAsFirstCall == pc = "done" => result = FirstResult

\* evaluateExpressionSimple(func.expr, p, { independentVar, variables }) with
\* func's own independent variable
ValueAt(func, p, variables) ==
    evaluateExpressionSimple(func.expr, p, FuncIndepVar(func), variables)

\* evaluateSimple(f.expr, evaluateSimple(g.expr, p)), null if the inner value
\* is
Composite(f, g, p, variables) ==
    Let(ValueAt(g, p, variables), LAMBDA v :
        IF v = Null THEN Null ELSE ValueAt(f, v, variables))

ComposedText == <<"f", "(", "g", "(", "x", ")", ")">>

\* C12: for visible functions named f and g, neither the current one, in
\* whatever order they are in the list, evaluateExpression of "f(g(x))" at p
\* returns evaluateSimple(f.expr, evaluateSimple(g.expr, p)) whenever both
\* values are numbers.
C12_ComposesInAnyOrder ==
    pc = "done" /\ op = "evaluateExpression" /\ args.expr = ComposedText =>
        \A i, j \in DOMAIN args.functions :
            (/\ i # j
             /\ FuncName(args.functions[i]) = <<"f">>
             /\ FuncName(args.functions[j]) = <<"g">>
             /\ args.functions[i].visible /\ args.functions[j].visible
             /\ args.functions[i].id # args.currentFuncId
             /\ args.functions[j].id # args.currentFuncId
             /\ Composite(args.functions[i], args.functions[j], args.xValue,
                          args.variables) # Null)
            => result = Composite(args.functions[i], args.functions[j], args.xValue,
                                  args.variables)

SquaredText == <<"f", "(", "x", ")", "^", "2">>

\* C13: for a visible function named f other than the current one (the
\* names of the FunctionDefs being distinct) and a point p where
\* v = evaluateSimple(f.expr, p) is a number, negative or not,
\* evaluateExpression of "f(x)^2" at p returns v*v.
C13_SquareOfCall ==
    pc = "done" /\ op = "evaluateExpression" /\ args.expr = SquaredText
    /\ UniqueNames(args.functions) =>
        \A n \in DOMAIN args.functions :
            (/\ FuncName(args.functions[n]) = <<"f">>
             /\ args.functions[n].visible
             /\ args.functions[n].id # args.currentFuncId
             /\ ValueAt(args.functions[n], args.xValue, args.variables) # Null
             /\ IsFinite(Mul(ValueAt(args.functions[n], args.xValue, args.variables),
                             ValueAt(args.functions[n], args.xValue, args.variables))))
            => result = Mul(ValueAt(args.functions[n], args.xValue, args.variables),
                            ValueAt(args.functions[n], args.xValue, args.variables))

---------------------------------------------------------------------------
(* The function panel.                                                     *)

\* C14: in every state reached by addFunction and deleteFunction, no two
\* functions of the list have the same dependentVar and no two the same id.
C14_UniqueNamesAndIds ==
    \A i, j \in DOMAIN functions :
        (functions[i].dependentVar = functions[j].dependentVar
         \/ functions[i].id = functions[j].id) => i = j

---------------------------------------------------------------------------
(* The Composition Resolver's passes.                                      *)

ContextNames(call) ==
    DOMAIN AllContext(buildVariableContext(call.variables), call.independentVar,
                      call.xValue)

\* C16: when a match of the pattern of a FunctionDef F is left as it was
\* (its inner text, or F.expr at the inner value, evaluated to null) and
\* F.dependentVar is not a name bound in the evaluation context, the
\* evaluateExpression call returns null.
C16_FailureGivesNull ==
    pc = "done" /\ op = "evaluateExpression" =>
        \A func \in trace.failed :
            FuncName(func) \notin ContextNames(args) => result = Null

---------------------------------------------------------------------------
(* The Normalizer's result.                                                *)

\* the adjacencies of implicit multiplication: a digit and a letter, ")" and
\* a digit, a digit and "(", ")" and "("
Adjacent(a, b) ==
    \/ IsDigit(a) /\ IsLetter(b)
    \/ a = ")" /\ IsDigit(b)
    \/ IsDigit(a) /\ b = "("
    \/ a = ")" /\ b = "("

\* the text t from position i on with "**" for every "^" and one "*" between
\* the two characters of every adjacency
RECURSIVE Separated(_, _)
Separated(t, i) ==
    IF i > Len(t) THEN <<>>
    ELSE (IF t[i] = "^" THEN <<"*", "*">> ELSE <<t[i]>>)
         \o (IF i < Len(t) /\ Adjacent(t[i], t[i + 1]) THEN <<"*">> ELSE <<>>)
         \o Separated(t, i + 1)

LowerText(t) == [i \in DOMAIN t |-> Lower(t[i])]

\* C17: the normalized text has no "^" and none of the four adjacencies; up
\* to the case of its letters it is the input with "**" for every "^" and
\* exactly one "*" between the characters of every adjacency; and every
\* "pi" in it, in any letter case in the input, is "PI".
C17_Postcondition ==
    pc = "done" /\ op = "preprocessExpression" =>
        /\ \A i \in DOMAIN text : text[i] # "^"
        /\ \A i \in 1..(Len(text) - 1) : ~Adjacent(text[i], text[i + 1])
        /\ LowerText(text) = LowerText(Separated(args.expr, 1))
        /\ \A i \in 1..(Len(text) - 1) :
              (Lower(text[i]) = "p" /\ Lower(text[i + 1]) = "i")
              => text[i] = "P" /\ text[i + 1] = "I"

\* a text with two of the adjacencies: )(2x becomes )*(2*x
C17_Witness ==
    /\ pc = "done"
    /\ op = "preprocessExpression"
    /\ args.expr = <<")", "(", "2", "x">>
    /\ text = <<")", "*", "(", "2", "*", "x">>

---------------------------------------------------------------------------
(* The left-side input of a row of the panel.                              *)

\* C18: after the onBlur handler of a row whose trimmed input has the simple
\* form name(var) and the render that applies its set-state calls, the
\* function of the row has dependentVar = name and independentVar = var.
C18_BothFieldsUpdated ==
    (/\ pending = <<>>
     /\ event.handler = "onBlur"
     /\ SimpleMatch(Trim(event.input)).matched)
    => \A n \in DOMAIN functions :
          functions[n].id = event.id
          => /\ functions[n].dependentVar = SimpleMatch(Trim(event.input)).name
             /\ functions[n].independentVar = SimpleMatch(Trim(event.input)).var

---------------------------------------------------------------------------
(* Expressions that call no listed function.                               *)

\* whether the text has the name as a complete identifier immediately
\* followed by "("
HasCallOf(t, name) ==
    \E i \in DOMAIN t :
        /\ StartsWithAt(t, i, name)
        /\ i + Len(name) <= Len(t) /\ t[i + Len(name)] = "("
        /\ i = 1 \/ ~IsIdentifierPart(t[i - 1])

\* C19: when the expression has no call of a listed function (no
\* dependentVar as a complete identifier followed by "("), evaluateExpression
\* returns what evaluateExpressionSimple returns for the same expression,
\* point, independent variable and variables.
C19_UncalledFunctionsChangeNothing ==
    (/\ pc = "done" /\ op = "evaluateExpression"
     /\ \A n \in DOMAIN args.functions :
           ~HasCallOf(args.expr, FuncName(args.functions[n])))
    => result = evaluateExpressionSimple(args.expr, args.xValue, args.independentVar,
                                         args.variables)

===========================================================================
